---- MODULE Spec2Model ----
(***************************************************************************)
(* A model of package web of go-serverapp.                                 *)
(*                                                                         *)
(* Part 1: the Listener (the connection gate).  Every goroutine that calls *)
(* into the Listener is a thread with a program counter; one step of the   *)
(* model is one atomic operation of sync/atomic, one mutex acquisition, or *)
(* one sync.Cond operation.  A goroutine makes one call and ends in a      *)
(* "done" state that keeps the call's result.  Variables ending in G are   *)
(* history variables: they record what happened and no guard reads them.   *)
(*                                                                         *)
(* Part 2: the responseWriter (the wrapper of the response sink), used by  *)
(* one goroutine that calls WriteHeader, Write and Flush one after the     *)
(* other.  The wrapped http.ResponseWriter is a recorder of the calls it   *)
(* receives; its Write reports any count from 0 to the length it is given. *)
(*                                                                         *)
(* Part 3: Pipeline, GzipPipe, BufferPipe, FlusherPipe and                 *)
(* HTTPServer.ServeHTTP: one goroutine per request, with its call stack    *)
(* and the ResponseWriters that the stages wrap around the responseWriter. *)
(*                                                                         *)
(* Part 4: fsnotify.Watcher: the goroutines that call its methods, the     *)
(* goroutines of readEvents and handleEvents, and the kernel's side of     *)
(* inotify.  Part 5: web.WebStore, one safestore per namespace.            *)
(***************************************************************************)
EXTENDS Integers, Sequences, FiniteSets, TLC

(* ------------------------------ bounds --------------------------------- *)
\* number of calls made on one Listener (Run, Accept, Close, HardPause,
\* ResumeFromHardPause, ResetMaxNumConn together)
MaxCalls == 3
\* largest ceiling handed to NewListener / ResetMaxNumConn (0 stands for
\* "not positive" and selects the default)
MaxCeiling == 2
\* number of calls made on one responseWriter
MaxOps == 4
\* largest length of the byte slice handed to Write
MaxWriteLen == 2

(* --------------------------- program constants ------------------------- *)
DefaultMaxNumConn == 10
\* http.StatusOK
StatusOK == 200
trackConnOnAccept == FALSE

\* the goroutines that may call Run, Accept and Close
RunNames == {1, 2}
RunNamesSeq == {1, 2, 3}
AcceptThreads == {1}
CloseThreads == {1, 2}
WaitZeroThreads == {1}
\* the pool that can fill a gate made with the default ceiling
RunNamesHyst == 1..DefaultMaxNumConn

VARIABLES
    closed,        \* Listener.closed      0 or 1
    paused,        \* Listener.paused      0 or 1
    hardPaused,    \* Listener.hardPaused  0 or 1
    maxNumConnHi,  \* Listener.maxNumConnHi
    maxNumConnLo,  \* Listener.maxNumConnLo
    numConn,       \* Listener.numConn
    lCloseCalls,   \* number of calls made to the wrapped listener's Close
    muP, muC, muZ, \* pausedCond.L, closedCond.L, zeroCond.L are held
    rpc, rn, calls, fault, obs, \* goroutines in Run: pc, local n, callbacks
                   \* invoked so far, whether onRun panicked, what the
                   \* admission check observed
    apc, aret,     \* goroutines in Accept: pc, result
    cpc, cret,     \* goroutines in Close: pc, result
    mpc, mval,     \* the administrative goroutine: pc, ResetMaxNumConn arg
    ncalls,        \* number of calls made so far
    afterCloseRunG,  \* per Run goroutine: its call began after a Close returned
    afterCloseAccG,  \* per Accept goroutine: same
    blockedAtCloseG, \* per Accept goroutine: parked in Wait when closed was set
    latchG,          \* numConn reached the high threshold and has not fallen
                     \* to the low threshold since
    raceWinG,        \* number of other Runs inside the admission check when
                     \* soft-pause was engaged (0 once it is cleared)
    adminUsedG,      \* HardPause, ResumeFromHardPause or ResetMaxNumConn
                     \* has been called
    resetUsedG,      \* ResetMaxNumConn has been called
    flagHeldG,       \* per Accept goroutine: the pause flags ("hard", "soft")
                     \* that have been set ever since its call began
    transG,          \* the successful transitions of the paused flag, in
                     \* order ("PAUSE", "UNPAUSE": the two log.Warning sites)
    wpc,             \* goroutines in WaitZeroInflight: pc
    \* responseWriter
    code,            \* responseWriter.code
    headerWritten,   \* responseWriter.headerWritten
    numBytesW,       \* responseWriter.numBytesW
    wCalls,          \* the calls received by the wrapped http.ResponseWriter
    wIsFlusher,      \* the wrapped http.ResponseWriter is an http.Flusher
    opsG             \* the calls made on the responseWriter

VARIABLES
    \* HTTPServer, Pipeline, the pooled stages (one request per goroutine)
    pipes,         \* HTTPServer.Pipes: the configured stages, by kind
    panicFlags,    \* Listener.panicFlags, as the set of flags that are set
    ps,            \* per request: Pipeline.s, the stages by kind
    pi,            \* per request: Pipeline.i, the cursor
    stack,         \* per request: the goroutine's call stack, innermost last
    wrs,           \* per request: the ResponseWriters made for it, in order
                   \* of creation: first the responseWriter, then the
                   \* gzipWriters and bufWriters that wrap it
    rws,           \* per request: the fields of its responseWriter
    hdr,           \* per request: the response's header map
    raw,           \* per request: what the raw http.ResponseWriter was given
    broken,        \* per request: the connection is gone, raw Writes fail
    aenc,          \* per request: the request's Accept-Encoding header
    panicking,     \* per request: a panic is unwinding the stack
    outcome,       \* per request: "idle", "serving", "returned" (ServeHTTP
                   \* returned), "panicked" (the panic went on to the caller);
                   \* "chain" for a Pipeline that its maker drives directly
    gzw,           \* the gzip.Writers made so far, by number
    gzIdle,        \* the gzip.Writers idle in GzipPipe.pool
    bfw,           \* the bufio.Writers made so far, by number
    bfIdle,        \* the bufio.Writers idle in BufferPipe.pool
    evG,           \* per request: what happened, in order
    hopsG,         \* per request: the calls the application handler made
    hwG,           \* per request: the bytes the application handler wrote
    outsideG       \* per request: Next calls made by the Pipeline's maker

cfgv == <<pipes, panicFlags>>
plv == <<ps, pi, stack>>
wrv == <<wrs, rws, hdr, raw, gzw, gzIdle, bfw, bfIdle, evG>>
reqv == <<broken, aenc, panicking, outcome, hopsG, hwG, outsideG>>
pipev == <<cfgv, plv, wrv, reqv>>

\* no HTTPServer: nothing is served
InitNoRequests ==
    /\ pipes = <<>> /\ panicFlags = {}
    /\ ps = <<>> /\ pi = <<>> /\ stack = <<>>
    /\ wrs = <<>> /\ rws = <<>> /\ hdr = <<>> /\ raw = <<>>
    /\ gzw = <<>> /\ gzIdle = <<>> /\ bfw = <<>> /\ bfIdle = <<>>
    /\ evG = <<>>
    /\ broken = <<>> /\ aenc = <<>> /\ panicking = <<>> /\ outcome = <<>>
    /\ hopsG = <<>> /\ hwG = <<>> /\ outsideG = <<>>

VARIABLES
    \* fsnotify.Watcher
    wClosed,       \* Watcher.closed      0 or 1
    wds,           \* Watcher.wds: watch descriptor -> path
    flags,         \* Watcher.flags: path -> flags
    mu,            \* the goroutine that holds Watcher.mu, 0 for none
    ev,            \* Watcher.ev: the batches in the channel's buffer, and
                   \* whether the channel is closed
    sl,            \* Watcher.sl # 0
    fd,            \* the inotify descriptor Watcher.fd: "open" or "closed"
    kwd,           \* kernel: the watches of the inotify instance, inode -> wd
    nwd,           \* kernel: the last watch descriptor handed out
    kq,            \* kernel: the events queued for reading, <<wd, mask>>
    rdpc, rdbuf,   \* the goroutine of readEvents: pc, and what it read or
                   \* the batch it made of it
    hdpc, hdx,     \* the goroutine of handleEvents: pc, the batch received
    tpc, tcall, tret, \* the goroutines that call the Watcher's methods: pc,
                   \* the call, its result
    fsEventsG,     \* number of filesystem events that have happened
    handledG       \* the batches handed to Watcher.fn, in order

VARIABLES
    \* web.WebStore
    container,     \* WebStore.container: namespace -> safestore (key -> value)
    stores,        \* the safestores made so far, by number
    lockW,         \* the goroutine that holds WebStore.lock for writing, 0 for none
    lockR,         \* the goroutines that hold WebStore.lock for reading
    spc, scall, srq, sret, \* the goroutines that use the store: pc, the call,
                   \* the safestore that rq or rqNonNil returned, the result
    scalls,        \* per goroutine: the number of calls made
    sopsG          \* per namespace: the value last put for each key since the
                   \* last Clear, and the keys that a Clear has dropped

watchv == <<wClosed, wds, flags, mu, ev, sl, fd, kwd, nwd, kq, rdpc, rdbuf, hdpc, hdx,
            tpc, tcall, tret, fsEventsG, handledG>>
storev == <<container, stores, lockW, lockR, spc, scall, srq, sret, scalls, sopsG>>
extv == <<watchv, storev>>

\* no Watcher
InitNoWatcher ==
    /\ wClosed = 0 /\ wds = <<>> /\ flags = <<>> /\ mu = 0
    /\ ev = [q |-> <<>>, closed |-> FALSE] /\ sl = FALSE
    /\ fd = "closed" /\ kwd = <<>> /\ nwd = 0 /\ kq = <<>>
    /\ rdpc = "none" /\ rdbuf = <<>> /\ hdpc = "none" /\ hdx = <<>>
    /\ tpc = <<>> /\ tcall = <<>> /\ tret = <<>>
    /\ fsEventsG = 0 /\ handledG = <<>>

\* no WebStore
InitNoStore ==
    /\ container = <<>> /\ stores = <<>> /\ lockW = 0 /\ lockR = {}
    /\ spc = <<>> /\ scall = <<>> /\ srq = <<>> /\ sret = <<>> /\ scalls = <<>>
    /\ sopsG = <<>>

gate == <<closed, paused, hardPaused, maxNumConnHi, maxNumConnLo, numConn>>
conds == <<muP, muC, muZ>>
runv == <<rpc, rn, calls, fault, obs>>
accv == <<apc, aret>>
clov == <<cpc, cret, lCloseCalls>>
admv == <<mpc, mval>>
ghostv == <<afterCloseRunG, afterCloseAccG, blockedAtCloseG, latchG, raceWinG,
            adminUsedG>>
rwv == <<code, headerWritten, numBytesW, wCalls, wIsFlusher, opsG>>
\* everything that is not part of the Listener
others == <<rwv, pipev, extv>>
listenerv == <<gate, conds, runv, accv, clov, admv, ncalls, ghostv, resetUsedG,
               flagHeldG, transG, wpc>>
vars == <<listenerv, others>>

RunThreads == DOMAIN rpc

(* ----------------------------- NewListener ----------------------------- *)
\* if maxNumConn <= 0 { maxNumConn = 10 }
NormMax(m) == IF m <= 0 THEN DefaultMaxNumConn ELSE m

\* mutant: the product is rounded to nearest instead of truncated
LoOf_Rounded(m) == (m * 95 + 50) \div 100

\* int32(float32(maxNumConn) * 0.95): the product is truncated toward zero.
\* For the ceilings of this model (far below 2^20) the float32 product
\* truncates to the same integer as the exact one.
LoOf(m) == (m * 95) \div 100

CeilingInputs == 0..MaxCeiling

\* &responseWriter{w: w}
InitResponseWriter ==
    /\ code = 0
    /\ headerWritten = FALSE
    /\ numBytesW = 0
    /\ wCalls = <<>>
    /\ opsG = <<>>

InitListener(runs, ceilings) ==
    /\ closed = 0
    /\ paused = 0
    /\ hardPaused = 0
    /\ \E m \in ceilings :
          /\ maxNumConnHi = NormMax(m)
          /\ maxNumConnLo = LoOf(NormMax(m))
    /\ numConn = 0
    /\ lCloseCalls = 0
    /\ muP = FALSE /\ muC = FALSE /\ muZ = FALSE
    /\ rpc = [t \in runs |-> "idle"]
    /\ rn = [t \in runs |-> 0]
    /\ calls = [t \in runs |-> <<>>]
    /\ fault = [t \in runs |-> FALSE]
    /\ obs = [t \in runs |-> "none"]
    /\ apc = [a \in AcceptThreads |-> "idle"]
    /\ aret = [a \in AcceptThreads |-> "none"]
    /\ cpc = [c \in CloseThreads |-> "idle"]
    /\ cret = [c \in CloseThreads |-> "none"]
    /\ mpc = "idle"
    /\ mval = 0
    /\ ncalls = 0
    /\ afterCloseRunG = [t \in runs |-> FALSE]
    /\ afterCloseAccG = [a \in AcceptThreads |-> FALSE]
    /\ blockedAtCloseG = [a \in AcceptThreads |-> FALSE]
    /\ latchG = FALSE
    /\ raceWinG = 0
    /\ adminUsedG = FALSE
    /\ resetUsedG = FALSE
    /\ flagHeldG = [a \in AcceptThreads |-> {}]
    /\ transG = <<>>
    /\ wpc = [w \in WaitZeroThreads |-> "idle"]

\* a Listener, and a responseWriter that nothing has been written to
InitWith(runs) ==
    /\ InitListener(runs, CeilingInputs)
    /\ InitResponseWriter
    /\ wIsFlusher = TRUE
    /\ InitNoRequests
    /\ InitNoWatcher /\ InitNoStore

Init == InitWith(RunNames)
InitSeq == InitWith(RunNamesSeq)
InitHyst == InitWith(RunNamesHyst)

(* ------------------------------ helpers -------------------------------- *)
\* a new call may be made; the goroutines of one kind are interchangeable,
\* so they are started in the order of their names
\* (the pool that fills a default gate gets one call per goroutine and one
\* more for a ResetMaxNumConn)
CallBudget == IF RunThreads = RunNamesHyst THEN DefaultMaxNumConn + 1 ELSE MaxCalls
CanCall == ncalls < CallBudget
NextIdle(pcs, t) == pcs[t] = "idle" /\ \A u \in DOMAIN pcs : u < t => pcs[u] # "idle"

\* c.Broadcast() on pausedCond: every goroutine parked in c.Wait() becomes
\* runnable and must reacquire c.L before it re-evaluates its condition.
WakeAccepts == [a \in AcceptThreads |-> IF apc[a] = "ac_wait" THEN "ac_woken" ELSE apc[a]]
\* c.Broadcast() on zeroCond
WakeZeroWaiters == [w \in WaitZeroThreads |-> IF wpc[w] = "wz_wait" THEN "wz_woken" ELSE wpc[w]]
\* c.Broadcast() on closedCond
WakeClosers == [c \in CloseThreads |-> IF cpc[c] = "cl_wait" THEN "cl_woken" ELSE cpc[c]]

\* Run goroutines between their closed check and the start of onRun
InAdmission(t) == rpc[t] \in {"r_inc", "r_hp", "r_p", "r_hi", "r_cas"}
\* Run goroutines inside onRun
InBody(t) == rpc[t] = "r_body"
\* Run goroutines that have incremented numConn and not yet decremented it
InFlight(t) == rpc[t] \in {"r_hp", "r_p", "r_hi", "r_cas", "r_body", "a_dec"}
\* a call of Close has returned; the call that closed the gate has returned
CloseReturned == \E c \in CloseThreads : cpc[c] \in {"done", "done_noop"}
WinnerReturned == \E c \in CloseThreads : cpc[c] = "done"

(* ------------------------------ Listener.Run --------------------------- *)
\* mutant: the closed flag is not consulted
RunCheckClosed_NoCheck(t) ==
    /\ CanCall /\ NextIdle(rpc, t)
    /\ ncalls' = ncalls + 1
    /\ afterCloseRunG' = [afterCloseRunG EXCEPT ![t] = CloseReturned]
    /\ rpc' = [rpc EXCEPT ![t] = "r_inc"]
    /\ UNCHANGED <<gate, conds, rn, calls, fault, obs, accv, clov, admv,
                   afterCloseAccG, blockedAtCloseG, latchG, raceWinG, adminUsedG>>
    /\ UNCHANGED <<resetUsedG, flagHeldG, transG, wpc, others>>

\* if atomic.LoadUint32(&s.closed) == 1 { onClosed(); return }
RunCheckClosed(t) ==
    /\ CanCall /\ NextIdle(rpc, t)
    /\ ncalls' = ncalls + 1
    /\ afterCloseRunG' = [afterCloseRunG EXCEPT ![t] = CloseReturned]
    /\ IF closed = 1
         THEN /\ calls' = [calls EXCEPT ![t] = Append(@, "onClosed")]
              /\ obs' = [obs EXCEPT ![t] = "closed"]
              /\ rpc' = [rpc EXCEPT ![t] = "done"]
         ELSE /\ rpc' = [rpc EXCEPT ![t] = "r_inc"]
              /\ UNCHANGED <<calls, obs>>
    /\ UNCHANGED <<gate, conds, rn, fault, accv, clov, admv, afterCloseAccG,
                   blockedAtCloseG, latchG, raceWinG, adminUsedG>>
    /\ UNCHANGED <<resetUsedG, flagHeldG, transG, wpc, others>>

\* mutant: numConn is only loaded, as if connections were tracked on accept
RunInc_LoadOnly(t) ==
    /\ rpc[t] = "r_inc"
    /\ rn' = [rn EXCEPT ![t] = numConn]
    /\ rpc' = [rpc EXCEPT ![t] = "r_hp"]
    /\ UNCHANGED <<gate, conds, calls, fault, obs, accv, clov, admv, ncalls, ghostv>>
    /\ UNCHANGED <<resetUsedG, flagHeldG, transG, wpc, others>>

\* n = atomic.AddInt32(&s.numConn, 1)   (or a plain load when tracking on accept)
RunInc(t) ==
    /\ rpc[t] = "r_inc"
    /\ numConn' = IF trackConnOnAccept THEN numConn ELSE numConn + 1
    /\ rn' = [rn EXCEPT ![t] = numConn']
    /\ latchG' = IF numConn' >= maxNumConnHi /\ numConn' # numConn THEN TRUE ELSE latchG
    /\ rpc' = [rpc EXCEPT ![t] = "r_hp"]
    /\ UNCHANGED <<closed, paused, hardPaused, maxNumConnHi, maxNumConnLo, conds,
                   calls, fault, obs, accv, clov, admv, ncalls, afterCloseRunG,
                   afterCloseAccG, blockedAtCloseG, raceWinG, adminUsedG>>
    /\ UNCHANGED <<resetUsedG, flagHeldG, transG, wpc, others>>

\* if atomic.LoadUint32(&s.hardPaused) == 1 || ...  { onPaused() }
\* then defer s.afterRun(); onRun()
RunLoadHard(t) ==
    /\ rpc[t] = "r_hp"
    /\ IF hardPaused = 1
         THEN /\ calls' = [calls EXCEPT ![t] = Append(Append(@, "onPaused"), "onRun")]
              /\ obs' = [obs EXCEPT ![t] = "hard"]
              /\ rpc' = [rpc EXCEPT ![t] = "r_body"]
         ELSE /\ rpc' = [rpc EXCEPT ![t] = "r_p"]
              /\ UNCHANGED <<calls, obs>>
    /\ UNCHANGED <<gate, conds, rn, fault, accv, clov, admv, ncalls, ghostv>>
    /\ UNCHANGED <<resetUsedG, flagHeldG, transG, wpc, others>>

\* mutant: a soft-paused gate rejects the request after onPaused
RunLoadPaused_Reject(t) ==
    /\ rpc[t] = "r_p"
    /\ IF paused = 1
         THEN /\ calls' = [calls EXCEPT ![t] = Append(@, "onPaused")]
              /\ obs' = [obs EXCEPT ![t] = "soft"]
              /\ rpc' = [rpc EXCEPT ![t] = "a_dec"]
         ELSE /\ rpc' = [rpc EXCEPT ![t] = "r_hi"]
              /\ obs' = [obs EXCEPT ![t] = "clear"]
              /\ UNCHANGED calls
    /\ UNCHANGED <<gate, conds, rn, fault, accv, clov, admv, ncalls, ghostv>>
    /\ UNCHANGED <<resetUsedG, flagHeldG, transG, wpc, others>>

\* ... || atomic.LoadUint32(&s.paused) == 1 { onPaused() }
RunLoadPaused(t) ==
    /\ rpc[t] = "r_p"
    /\ IF paused = 1
         THEN /\ calls' = [calls EXCEPT ![t] = Append(Append(@, "onPaused"), "onRun")]
              /\ obs' = [obs EXCEPT ![t] = "soft"]
              /\ rpc' = [rpc EXCEPT ![t] = "r_body"]
         ELSE /\ rpc' = [rpc EXCEPT ![t] = "r_hi"]
              /\ obs' = [obs EXCEPT ![t] = "clear"]
              /\ UNCHANGED calls
    /\ UNCHANGED <<gate, conds, rn, fault, accv, clov, admv, ncalls, ghostv>>
    /\ UNCHANGED <<resetUsedG, flagHeldG, transG, wpc, others>>

\* mutant: the ceiling has to be exceeded, not reached
RunLoadHi_Strict(t) ==
    /\ rpc[t] = "r_hi"
    /\ IF rn[t] > maxNumConnHi
         THEN /\ rpc' = [rpc EXCEPT ![t] = "r_cas"]
              /\ UNCHANGED calls
         ELSE /\ rpc' = [rpc EXCEPT ![t] = "r_body"]
              /\ calls' = [calls EXCEPT ![t] = Append(@, "onRun")]
    /\ UNCHANGED <<gate, conds, rn, fault, obs, accv, clov, admv, ncalls, ghostv>>
    /\ UNCHANGED <<resetUsedG, flagHeldG, transG, wpc, others>>

\* else if nHi := atomic.LoadInt32(&s.maxNumConnHi); n >= nHi {
RunLoadHi(t) ==
    /\ rpc[t] = "r_hi"
    /\ IF rn[t] >= maxNumConnHi
         THEN /\ rpc' = [rpc EXCEPT ![t] = "r_cas"]
              /\ UNCHANGED calls
         ELSE /\ rpc' = [rpc EXCEPT ![t] = "r_body"]
              /\ calls' = [calls EXCEPT ![t] = Append(@, "onRun")]
    /\ UNCHANGED <<gate, conds, rn, fault, obs, accv, clov, admv, ncalls, ghostv>>
    /\ UNCHANGED <<resetUsedG, flagHeldG, transG, wpc, others>>

\* mutant: paused is stored, not compared and swapped, and every store is logged
RunCasPause_Store(t) ==
    /\ rpc[t] = "r_cas"
    /\ paused' = 1
    /\ raceWinG' = Cardinality({u \in RunThreads \ {t} : InAdmission(u)})
    /\ transG' = Append(transG, "PAUSE")
    /\ rpc' = [rpc EXCEPT ![t] = "r_body"]
    /\ calls' = [calls EXCEPT ![t] = Append(@, "onRun")]
    /\ UNCHANGED <<closed, hardPaused, maxNumConnHi, maxNumConnLo, numConn, conds,
                   rn, fault, obs, accv, clov, admv, ncalls, afterCloseRunG,
                   afterCloseAccG, blockedAtCloseG, latchG, adminUsedG>>
    /\ UNCHANGED <<resetUsedG, flagHeldG, wpc, others>>

\* atomic.CompareAndSwapUint32(&s.paused, 0, 1), then defer s.afterRun(); onRun()
RunCasPause(t) ==
    /\ rpc[t] = "r_cas"
    /\ IF paused = 0
         THEN /\ paused' = 1
              /\ raceWinG' = Cardinality({u \in RunThreads \ {t} : InAdmission(u)})
              /\ transG' = Append(transG, "PAUSE")
         ELSE UNCHANGED <<paused, raceWinG, transG>>
    /\ rpc' = [rpc EXCEPT ![t] = "r_body"]
    /\ calls' = [calls EXCEPT ![t] = Append(@, "onRun")]
    /\ UNCHANGED <<closed, hardPaused, maxNumConnHi, maxNumConnLo, numConn, conds,
                   rn, fault, obs, accv, clov, admv, ncalls, afterCloseRunG,
                   afterCloseAccG, blockedAtCloseG, latchG, adminUsedG>>
    /\ UNCHANGED <<resetUsedG, flagHeldG, wpc, others>>

\* onRun() returns, or panics; either way the deferred afterRun runs next
RunBody(t) ==
    /\ rpc[t] = "r_body"
    /\ \E f \in BOOLEAN : fault' = [fault EXCEPT ![t] = f]
    /\ rpc' = [rpc EXCEPT ![t] = "a_dec"]
    /\ UNCHANGED <<gate, conds, rn, calls, obs, accv, clov, admv, ncalls, ghostv>>
    /\ UNCHANGED <<resetUsedG, flagHeldG, transG, wpc, others>>

(* ---------------------------- Listener.afterRun ------------------------ *)
\* where afterRun goes once the pause flag is dealt with: if n == 0 { ... }
AfterPauseHandled(t) == IF rn[t] = 0 THEN "a_closed" ELSE "done"

\* Run returns: its local n is gone
RunLocals(t, pcNext) == [rn EXCEPT ![t] = IF pcNext = "done" THEN 0 ELSE @]

\* mutant: afterRun is called after onRun instead of deferred, so a panic
\* of onRun skips the decrement
AfterDec_NotDeferred(t) ==
    /\ rpc[t] = "a_dec"
    /\ numConn' = IF fault[t] THEN numConn ELSE numConn - 1
    /\ rn' = [rn EXCEPT ![t] = numConn']
    /\ latchG' = IF numConn' <= maxNumConnLo /\ numConn' # numConn THEN FALSE ELSE latchG
    /\ rpc' = [rpc EXCEPT ![t] = "a_lo"]
    /\ UNCHANGED <<closed, paused, hardPaused, maxNumConnHi, maxNumConnLo, conds,
                   calls, fault, obs, accv, clov, admv, ncalls, afterCloseRunG,
                   afterCloseAccG, blockedAtCloseG, raceWinG, adminUsedG>>
    /\ UNCHANGED <<resetUsedG, flagHeldG, transG, wpc, others>>

\* n = atomic.AddInt32(&s.numConn, -1)
AfterDec(t) ==
    /\ rpc[t] = "a_dec"
    /\ numConn' = IF trackConnOnAccept THEN numConn ELSE numConn - 1
    /\ rn' = [rn EXCEPT ![t] = numConn']
    /\ latchG' = IF numConn' <= maxNumConnLo /\ numConn' # numConn THEN FALSE ELSE latchG
    /\ rpc' = [rpc EXCEPT ![t] = "a_lo"]
    /\ UNCHANGED <<closed, paused, hardPaused, maxNumConnHi, maxNumConnLo, conds,
                   calls, fault, obs, accv, clov, admv, ncalls, afterCloseRunG,
                   afterCloseAccG, blockedAtCloseG, raceWinG, adminUsedG>>
    /\ UNCHANGED <<resetUsedG, flagHeldG, transG, wpc, others>>

\* mutant: the count has to fall below the low threshold, not reach it
AfterLoadLo_Strict(t) ==
    /\ rpc[t] = "a_lo"
    /\ LET nxt == IF rn[t] < maxNumConnLo THEN "a_cas" ELSE "done"
       IN  rpc' = [rpc EXCEPT ![t] = nxt] /\ rn' = RunLocals(t, nxt)
    /\ UNCHANGED <<gate, conds, calls, fault, obs, accv, clov, admv, ncalls, ghostv>>
    /\ UNCHANGED <<resetUsedG, flagHeldG, transG, wpc, others>>

\* if nLo := atomic.LoadInt32(&s.maxNumConnLo); n <= nLo {
AfterLoadLo(t) ==
    /\ rpc[t] = "a_lo"
    /\ LET nxt == IF rn[t] <= maxNumConnLo THEN "a_cas" ELSE "done"
       IN  rpc' = [rpc EXCEPT ![t] = nxt] /\ rn' = RunLocals(t, nxt)
    /\ UNCHANGED <<gate, conds, calls, fault, obs, accv, clov, admv, ncalls, ghostv>>
    /\ UNCHANGED <<resetUsedG, flagHeldG, transG, wpc, others>>

\* if atomic.CompareAndSwapUint32(&s.paused, 1, 0) {
AfterCasUnpause(t) ==
    /\ rpc[t] = "a_cas"
    /\ IF paused = 1
         THEN /\ paused' = 0
              /\ raceWinG' = 0
              /\ transG' = Append(transG, "UNPAUSE")
              /\ flagHeldG' = [a \in AcceptThreads |-> flagHeldG[a] \ {"soft"}]
              /\ rpc' = [rpc EXCEPT ![t] = "a_sigP"]
              /\ UNCHANGED rn
         ELSE /\ paused' = paused
              /\ raceWinG' = raceWinG
              /\ UNCHANGED <<transG, flagHeldG>>
              /\ rpc' = [rpc EXCEPT ![t] = AfterPauseHandled(t)]
              /\ rn' = RunLocals(t, AfterPauseHandled(t))
    /\ UNCHANGED <<closed, hardPaused, maxNumConnHi, maxNumConnLo, numConn, conds,
                   calls, fault, obs, accv, clov, admv, ncalls, afterCloseRunG,
                   afterCloseAccG, blockedAtCloseG, latchG, adminUsedG>>
    /\ UNCHANGED <<resetUsedG, wpc, others>>

\* mutant: the goroutine that cleared the flag does not broadcast
AfterSignalPaused_NoBroadcast(t) ==
    /\ rpc[t] = "a_sigP"
    /\ ~muP
    /\ rpc' = [rpc EXCEPT ![t] = AfterPauseHandled(t)]
    /\ rn' = RunLocals(t, AfterPauseHandled(t))
    /\ UNCHANGED <<gate, conds, calls, fault, obs, accv, clov, admv, ncalls, ghostv>>
    /\ UNCHANGED <<resetUsedG, flagHeldG, transG, wpc, others>>

\* signalCond(s.pausedCond): Lock, Broadcast, Unlock
AfterSignalPaused(t) ==
    /\ rpc[t] = "a_sigP"
    /\ ~muP
    /\ apc' = WakeAccepts
    /\ rpc' = [rpc EXCEPT ![t] = AfterPauseHandled(t)]
    /\ rn' = RunLocals(t, AfterPauseHandled(t))
    /\ UNCHANGED <<gate, conds, calls, fault, obs, aret, clov, admv, ncalls, ghostv>>
    /\ UNCHANGED <<resetUsedG, flagHeldG, transG, wpc, others>>

\* if n == 0 { if atomic.LoadUint32(&s.closed) == 1 {
AfterLoadClosed(t) ==
    /\ rpc[t] = "a_closed"
    /\ rpc' = [rpc EXCEPT ![t] = IF closed = 1 THEN "a_sigC" ELSE "a_sigZ"]
    /\ UNCHANGED <<gate, conds, rn, calls, fault, obs, accv, clov, admv, ncalls, ghostv>>
    /\ UNCHANGED <<resetUsedG, flagHeldG, transG, wpc, others>>

\* signalCond(s.closedCond)
AfterSignalClosed(t) ==
    /\ rpc[t] = "a_sigC"
    /\ ~muC
    /\ cpc' = WakeClosers
    /\ rpc' = [rpc EXCEPT ![t] = "a_sigZ"]
    /\ UNCHANGED <<gate, conds, rn, calls, fault, obs, accv, cret, lCloseCalls,
                   admv, ncalls, ghostv>>
    /\ UNCHANGED <<resetUsedG, flagHeldG, transG, wpc, others>>

\* signalCond(s.zeroCond); afterRun and Run return (a panic of onRun goes on
\* to the caller)
AfterSignalZero(t) ==
    /\ rpc[t] = "a_sigZ"
    /\ ~muZ
    /\ wpc' = WakeZeroWaiters
    /\ rpc' = [rpc EXCEPT ![t] = "done"]
    /\ rn' = RunLocals(t, "done")
    /\ UNCHANGED <<gate, conds, calls, fault, obs, accv, clov, admv, ncalls, ghostv>>
    /\ UNCHANGED <<resetUsedG, flagHeldG, transG, others>>

(* ----------------------------- Listener.Accept ------------------------- *)
\* if atomic.LoadUint32(&s.closed) == 1 { return nil, ClosedErr }
AcceptCheckClosed(a) ==
    /\ CanCall /\ NextIdle(apc, a)
    /\ ncalls' = ncalls + 1
    /\ afterCloseAccG' = [afterCloseAccG EXCEPT ![a] = CloseReturned]
    /\ IF closed = 1
         THEN /\ aret' = [aret EXCEPT ![a] = "ClosedErr"]
              /\ apc' = [apc EXCEPT ![a] = "done"]
              /\ UNCHANGED flagHeldG
         ELSE /\ apc' = [apc EXCEPT ![a] = "ac_lock"]
              /\ flagHeldG' = [flagHeldG EXCEPT ![a] =
                                 {f \in {"hard"} : hardPaused = 1}
                                 \cup {f \in {"soft"} : paused = 1}]
              /\ UNCHANGED aret
    /\ UNCHANGED <<gate, conds, runv, clov, admv, afterCloseRunG, blockedAtCloseG,
                   latchG, raceWinG, adminUsedG>>
    /\ UNCHANGED <<resetUsedG, transG, wpc, others>>

\* waitCond: c.L.Lock(), on entry and again when c.Wait() resumes
AcceptLock(a) ==
    /\ apc[a] \in {"ac_lock", "ac_woken"}
    /\ ~muP
    /\ muP' = TRUE
    /\ apc' = [apc EXCEPT ![a] = "ac_hp"]
    /\ UNCHANGED <<gate, muC, muZ, runv, aret, clov, admv, ncalls, ghostv>>
    /\ UNCHANGED <<resetUsedG, flagHeldG, transG, wpc, others>>

\* mutant: the wait condition looks at the soft-paused flag only
AcceptLoadHard_Ignored(a) ==
    /\ apc[a] = "ac_hp"
    /\ apc' = [apc EXCEPT ![a] = "ac_p"]
    /\ UNCHANGED <<gate, conds, runv, aret, clov, admv, ncalls, ghostv>>
    /\ UNCHANGED <<resetUsedG, flagHeldG, transG, wpc, others>>

\* fn: atomic.LoadUint32(&s.hardPaused) == 1 || ...; true: c.Wait()
AcceptLoadHard(a) ==
    /\ apc[a] = "ac_hp"
    /\ IF hardPaused = 1
         THEN /\ apc' = [apc EXCEPT ![a] = "ac_wait"]
              /\ muP' = FALSE
         ELSE /\ apc' = [apc EXCEPT ![a] = "ac_p"]
              /\ muP' = muP
    /\ UNCHANGED <<gate, muC, muZ, runv, aret, clov, admv, ncalls, ghostv>>
    /\ UNCHANGED <<resetUsedG, flagHeldG, transG, wpc, others>>

\* fn: ... || atomic.LoadUint32(&s.paused) == 1; true: c.Wait(),
\* false: c.L.Unlock() and go on to s.l.Accept()
AcceptLoadPaused(a) ==
    /\ apc[a] = "ac_p"
    /\ muP' = FALSE
    /\ apc' = [apc EXCEPT ![a] = IF paused = 1 THEN "ac_wait" ELSE "ac_under"]
    /\ UNCHANGED <<gate, muC, muZ, runv, aret, clov, admv, ncalls, ghostv>>
    /\ UNCHANGED <<resetUsedG, flagHeldG, transG, wpc, others>>

\* c, err = s.l.Accept(): a connection arrives, or the wrapped listener was
\* closed and the call fails
AcceptUnder(a) ==
    /\ apc[a] = "ac_under"
    /\ \/ aret' = [aret EXCEPT ![a] = "conn"]
       \/ lCloseCalls > 0 /\ aret' = [aret EXCEPT ![a] = "lErr"]
    /\ apc' = [apc EXCEPT ![a] = "done"]
    /\ UNCHANGED <<gate, conds, runv, clov, admv, ncalls, ghostv>>
    /\ UNCHANGED <<resetUsedG, flagHeldG, transG, wpc, others>>

\* the call has gone on to the wrapped listener's Accept
UnderCalled(a) == apc[a] = "ac_under" \/ aret[a] \in {"conn", "lErr"}

(* ----------------------------- Listener.Close -------------------------- *)
\* mutant: closed is stored, not compared and swapped, so no call returns early
CloseCas_Store(c) ==
    /\ CanCall /\ NextIdle(cpc, c)
    /\ ncalls' = ncalls + 1
    /\ closed' = 1
    /\ cpc' = [cpc EXCEPT ![c] = "cl_lclose"]
    /\ blockedAtCloseG' = [a \in AcceptThreads |-> apc[a] = "ac_wait"]
    /\ UNCHANGED <<paused, hardPaused, maxNumConnHi, maxNumConnLo, numConn, conds,
                   runv, accv, cret, lCloseCalls, admv, afterCloseRunG,
                   afterCloseAccG, latchG, raceWinG, adminUsedG>>
    /\ UNCHANGED <<resetUsedG, flagHeldG, transG, wpc, others>>

\* if !atomic.CompareAndSwapUint32(&s.closed, 0, 1) { return }
CloseCas(c) ==
    /\ CanCall /\ NextIdle(cpc, c)
    /\ ncalls' = ncalls + 1
    /\ IF closed = 0
         THEN /\ closed' = 1
              /\ cpc' = [cpc EXCEPT ![c] = "cl_lclose"]
              /\ blockedAtCloseG' = [a \in AcceptThreads |-> apc[a] = "ac_wait"]
              /\ UNCHANGED cret
         ELSE /\ closed' = closed
              /\ cpc' = [cpc EXCEPT ![c] = "done_noop"]
              /\ cret' = [cret EXCEPT ![c] = "nil"]
              /\ UNCHANGED blockedAtCloseG
    /\ UNCHANGED <<paused, hardPaused, maxNumConnHi, maxNumConnLo, numConn, conds,
                   runv, accv, lCloseCalls, admv, afterCloseRunG, afterCloseAccG,
                   latchG, raceWinG, adminUsedG>>
    /\ UNCHANGED <<resetUsedG, flagHeldG, transG, wpc, others>>

\* err = s.l.Close()
CloseUnder(c) ==
    /\ cpc[c] = "cl_lclose"
    /\ lCloseCalls' = lCloseCalls + 1
    /\ cret' = [cret EXCEPT ![c] = "lCloseResult"]
    /\ cpc' = [cpc EXCEPT ![c] = "cl_lock"]
    /\ UNCHANGED <<gate, conds, runv, accv, admv, ncalls, ghostv>>
    /\ UNCHANGED <<resetUsedG, flagHeldG, transG, wpc, others>>

\* waitCond: c.L.Lock(), on entry and again when c.Wait() resumes
CloseLock(c) ==
    /\ cpc[c] \in {"cl_lock", "cl_woken"}
    /\ ~muC
    /\ muC' = TRUE
    /\ cpc' = [cpc EXCEPT ![c] = "cl_load"]
    /\ UNCHANGED <<gate, muP, muZ, runv, accv, cret, lCloseCalls, admv, ncalls, ghostv>>
    /\ UNCHANGED <<resetUsedG, flagHeldG, transG, wpc, others>>

\* fn: atomic.LoadInt32(&s.numConn) > 0; true: c.Wait()
CloseLoadNum(c) ==
    /\ cpc[c] = "cl_load"
    /\ IF numConn > 0
         THEN /\ cpc' = [cpc EXCEPT ![c] = "cl_wait"]
              /\ muC' = FALSE
         ELSE /\ cpc' = [cpc EXCEPT ![c] = "cl_unlock"]
              /\ muC' = muC
    /\ UNCHANGED <<gate, muP, muZ, runv, accv, cret, lCloseCalls, admv, ncalls, ghostv>>
    /\ UNCHANGED <<resetUsedG, flagHeldG, transG, wpc, others>>

\* c.L.Unlock(); return
CloseReturn(c) ==
    /\ cpc[c] = "cl_unlock"
    /\ muC' = FALSE
    /\ cpc' = [cpc EXCEPT ![c] = "done"]
    /\ UNCHANGED <<gate, muP, muZ, runv, accv, cret, lCloseCalls, admv, ncalls, ghostv>>
    /\ UNCHANGED <<resetUsedG, flagHeldG, transG, wpc, others>>

(* ------------------------ Listener.WaitZeroInflight -------------------- *)
\* mutant: the barrier waits on the closed flag instead of the count
WaitZeroLoadNum_WaitsForClosed(w) ==
    /\ wpc[w] = "wz_load"
    /\ IF closed = 0
         THEN /\ wpc' = [wpc EXCEPT ![w] = "wz_wait"]
              /\ muZ' = FALSE
         ELSE /\ wpc' = [wpc EXCEPT ![w] = "wz_unlock"]
              /\ muZ' = muZ
    /\ UNCHANGED <<gate, muP, muC, runv, accv, clov, admv, ncalls, ghostv>>
    /\ UNCHANGED <<resetUsedG, flagHeldG, transG, others>>

\* waitCond(s.zeroCond, ...): c.L.Lock() on entry
WaitZeroCall(w) ==
    /\ CanCall /\ NextIdle(wpc, w)
    /\ ~muZ
    /\ ncalls' = ncalls + 1
    /\ muZ' = TRUE
    /\ wpc' = [wpc EXCEPT ![w] = "wz_load"]
    /\ UNCHANGED <<gate, muP, muC, runv, accv, clov, admv, ghostv>>
    /\ UNCHANGED <<resetUsedG, flagHeldG, transG, others>>

\* c.Wait() resumes: it reacquires c.L
WaitZeroLock(w) ==
    /\ wpc[w] = "wz_woken"
    /\ ~muZ
    /\ muZ' = TRUE
    /\ wpc' = [wpc EXCEPT ![w] = "wz_load"]
    /\ UNCHANGED <<gate, muP, muC, runv, accv, clov, admv, ncalls, ghostv>>
    /\ UNCHANGED <<resetUsedG, flagHeldG, transG, others>>

\* fn: atomic.LoadInt32(&s.numConn) != 0; true: c.Wait()
WaitZeroLoadNum(w) ==
    /\ wpc[w] = "wz_load"
    /\ IF numConn # 0
         THEN /\ wpc' = [wpc EXCEPT ![w] = "wz_wait"]
              /\ muZ' = FALSE
         ELSE /\ wpc' = [wpc EXCEPT ![w] = "wz_unlock"]
              /\ muZ' = muZ
    /\ UNCHANGED <<gate, muP, muC, runv, accv, clov, admv, ncalls, ghostv>>
    /\ UNCHANGED <<resetUsedG, flagHeldG, transG, others>>

\* c.L.Unlock(); return
WaitZeroReturn(w) ==
    /\ wpc[w] = "wz_unlock"
    /\ muZ' = FALSE
    /\ wpc' = [wpc EXCEPT ![w] = "done"]
    /\ UNCHANGED <<gate, muP, muC, runv, accv, clov, admv, ncalls, ghostv>>
    /\ UNCHANGED <<resetUsedG, flagHeldG, transG, others>>

(* ------------ HardPause, ResumeFromHardPause, ResetMaxNumConn ----------- *)
\* if atomic.LoadUint32(&s.closed) == 1 { return }
HardPauseCheck ==
    /\ CanCall /\ mpc = "idle"
    /\ ncalls' = ncalls + 1
    /\ mpc' = IF closed = 1 THEN "idle" ELSE "hp_store"
    /\ adminUsedG' = TRUE
    /\ UNCHANGED <<gate, conds, runv, accv, clov, mval, afterCloseRunG,
                   afterCloseAccG, blockedAtCloseG, latchG, raceWinG>>
    /\ UNCHANGED <<resetUsedG, flagHeldG, transG, wpc, others>>

\* mutant: hard pause also engages soft-pause (the compare-and-swap that the
\* source has commented out)
HardPauseStore_AlsoSoft ==
    /\ mpc = "hp_store"
    /\ hardPaused' = 1
    /\ paused' = 1
    /\ mpc' = "idle"
    /\ UNCHANGED <<closed, maxNumConnHi, maxNumConnLo, numConn, conds,
                   runv, accv, clov, mval, ncalls, ghostv>>
    /\ UNCHANGED <<resetUsedG, flagHeldG, transG, wpc, others>>

\* atomic.StoreUint32(&s.hardPaused, 1)
HardPauseStore ==
    /\ mpc = "hp_store"
    /\ hardPaused' = 1
    /\ mpc' = "idle"
    /\ UNCHANGED <<closed, paused, maxNumConnHi, maxNumConnLo, numConn, conds,
                   runv, accv, clov, mval, ncalls, ghostv>>
    /\ UNCHANGED <<resetUsedG, flagHeldG, transG, wpc, others>>

\* if atomic.LoadUint32(&s.closed) == 1 { return }
ResumeCheck ==
    /\ CanCall /\ mpc = "idle"
    /\ ncalls' = ncalls + 1
    /\ mpc' = IF closed = 1 THEN "idle" ELSE "rs_store"
    /\ adminUsedG' = TRUE
    /\ UNCHANGED <<gate, conds, runv, accv, clov, mval, afterCloseRunG,
                   afterCloseAccG, blockedAtCloseG, latchG, raceWinG>>
    /\ UNCHANGED <<resetUsedG, flagHeldG, transG, wpc, others>>

\* atomic.StoreUint32(&s.hardPaused, 0)
ResumeStore ==
    /\ mpc = "rs_store"
    /\ hardPaused' = 0
    /\ flagHeldG' = [a \in AcceptThreads |-> flagHeldG[a] \ {"hard"}]
    /\ mpc' = "rs_sig"
    /\ UNCHANGED <<closed, paused, maxNumConnHi, maxNumConnLo, numConn, conds,
                   runv, accv, clov, mval, ncalls, ghostv>>
    /\ UNCHANGED <<resetUsedG, transG, wpc, others>>

\* signalCond(s.pausedCond)
ResumeSignal ==
    /\ mpc = "rs_sig"
    /\ ~muP
    /\ apc' = WakeAccepts
    /\ mpc' = "idle"
    /\ UNCHANGED <<gate, conds, runv, aret, clov, mval, ncalls, ghostv>>
    /\ UNCHANGED <<resetUsedG, flagHeldG, transG, wpc, others>>

\* if maxNumConn <= 0 { maxNumConn = 10 }; atomic.StoreInt32(&s.maxNumConnHi, maxNumConn)
ResetStoreHi(m) ==
    /\ CanCall /\ mpc = "idle"
    /\ ncalls' = ncalls + 1
    /\ mval' = NormMax(m)
    /\ maxNumConnHi' = NormMax(m)
    /\ mpc' = "rst_lo"
    /\ adminUsedG' = TRUE
    /\ resetUsedG' = TRUE
    /\ UNCHANGED <<closed, paused, hardPaused, maxNumConnLo, numConn, conds, runv,
                   accv, clov, afterCloseRunG, afterCloseAccG, blockedAtCloseG,
                   latchG, raceWinG>>
    /\ UNCHANGED <<flagHeldG, transG, wpc, others>>

\* atomic.StoreInt32(&s.maxNumConnLo, int32(float32(maxNumConn)*0.95))
ResetStoreLo ==
    /\ mpc = "rst_lo"
    /\ maxNumConnLo' = LoOf(mval)
    /\ mval' = 0
    /\ mpc' = "idle"
    /\ UNCHANGED <<closed, paused, hardPaused, maxNumConnHi, numConn, conds, runv,
                   accv, clov, ncalls, ghostv>>
    /\ UNCHANGED <<resetUsedG, flagHeldG, transG, wpc, others>>

(* --------------------------- specifications ---------------------------- *)
\* the steps a goroutine takes once its call is under way, and that need
\* nothing from outside the gate to happen
RunStep(t) ==
    \/ RunInc(t) \/ RunLoadHard(t) \/ RunLoadPaused(t) \/ RunLoadHi(t)
    \/ RunCasPause(t) \/ AfterDec(t) \/ AfterLoadLo(t) \/ AfterCasUnpause(t)
    \/ AfterSignalPaused(t) \/ AfterLoadClosed(t) \/ AfterSignalClosed(t)
    \/ AfterSignalZero(t)

AcceptStep(a) == AcceptLock(a) \/ AcceptLoadHard(a) \/ AcceptLoadPaused(a)

CloseStep(c) == CloseUnder(c) \/ CloseLock(c) \/ CloseLoadNum(c) \/ CloseReturn(c)

AdminStep == HardPauseStore \/ ResumeStore \/ ResumeSignal \/ ResetStoreLo

WaitZeroStep(w) == WaitZeroLock(w) \/ WaitZeroLoadNum(w) \/ WaitZeroReturn(w)

\* the calls made on the gate, and the events that come from outside it
\* (onRun ending, the wrapped listener's Accept returning)
RunAny(t) == RunCheckClosed(t) \/ RunStep(t) \/ RunBody(t)
AcceptAny(a) == AcceptCheckClosed(a) \/ AcceptStep(a) \/ AcceptUnder(a)
CloseAny(c) == CloseCas(c) \/ CloseStep(c)
AdminAny == HardPauseCheck \/ ResumeCheck \/ AdminStep
              \/ \E m \in CeilingInputs : ResetStoreHi(m)
WaitZeroAny(w) == WaitZeroCall(w) \/ WaitZeroStep(w)

Next ==
    \/ \E t \in RunThreads : RunAny(t)
    \/ \E a \in AcceptThreads : AcceptAny(a)
    \/ \E c \in CloseThreads : CloseAny(c)
    \/ AdminAny
    \/ \E w \in WaitZeroThreads : WaitZeroAny(w)

\* every interleaving of the goroutines' atomic steps
Spec == Init /\ [][Next]_vars

\* The Go scheduler runs every runnable goroutine: a step that stays possible
\* is taken.  Every onRun is taken to end ("all requests must be completed in
\* good time") and the wrapped listener's Accept to return.  Nothing obliges
\* anyone to make a new call.
Fairness ==
    /\ \A t \in RunNames : WF_vars(RunStep(t)) /\ WF_vars(RunBody(t))
    /\ \A a \in AcceptThreads : WF_vars(AcceptStep(a)) /\ WF_vars(AcceptUnder(a))
    /\ \A c \in CloseThreads : WF_vars(CloseStep(c))
    /\ WF_vars(AdminStep)
    /\ \A w \in WaitZeroThreads : WF_vars(WaitZeroStep(w))

FairSpec == Spec /\ Fairness

\* Calls that run one at a time: a goroutine takes a step only when every
\* other goroutine is idle, done, inside onRun, parked in Wait, or inside the
\* wrapped listener's Accept.
Busy ==
    {<<"run", t>> : t \in {u \in RunThreads : rpc[u] \notin {"idle", "r_body", "done"}}}
    \cup {<<"accept", a>> : a \in {u \in AcceptThreads :
                                    apc[u] \notin {"idle", "ac_wait", "ac_under", "done"}}}
    \cup {<<"close", c>> : c \in {u \in CloseThreads :
                                    cpc[u] \notin {"idle", "cl_wait", "done", "done_noop"}}}
    \cup {<<"admin", 0>> : x \in {u \in {0} : mpc # "idle"}}
    \cup {<<"waitzero", w>> : w \in {u \in WaitZeroThreads :
                                        wpc[u] \notin {"idle", "wz_wait", "done"}}}

NextSeq ==
    \/ \E t \in RunThreads : Busy \subseteq {<<"run", t>>} /\ RunAny(t)
    \/ \E a \in AcceptThreads : Busy \subseteq {<<"accept", a>>} /\ AcceptAny(a)
    \/ \E c \in CloseThreads : Busy \subseteq {<<"close", c>>} /\ CloseAny(c)
    \/ Busy \subseteq {<<"admin", 0>>} /\ AdminAny
    \/ \E w \in WaitZeroThreads : Busy \subseteq {<<"waitzero", w>>} /\ WaitZeroAny(w)

SpecSeq == InitSeq /\ [][NextSeq]_vars

\* The hysteresis on its own: a gate that is never closed and never
\* hard-paused, whose ceiling may be reset, with enough requests to fill a
\* gate made with the default ceiling; admissions and completions one at a
\* time.  The gate does not tell one request from another, so the request
\* whose onRun ends is taken to be the oldest one executing, and no onRun
\* panics.  A gate is sent the requests that fill it and one more.
OldestInBody(t) == InBody(t) => \A u \in RunThreads : u < t => ~InBody(u)
FillsGate(t) == rpc[t] = "idle" => t <= maxNumConnHi + 1

NextHyst ==
    \/ \E t \in RunThreads :
          /\ Busy \subseteq {<<"run", t>>} /\ OldestInBody(t) /\ FillsGate(t)
          /\ RunAny(t)
          /\ ~fault'[t]
    \/ Busy \subseteq {<<"admin", 0>>}
          /\ ((\E m \in CeilingInputs : ResetStoreHi(m)) \/ ResetStoreLo)

SpecHyst == InitHyst /\ [][NextHyst]_vars

(* ======================= claims about the Listener ===================== *)
Bodies == {t \in RunThreads : InBody(t)}
\* no goroutine is in the middle of an admission check, of afterRun, of a
\* lock hand-over or of an administrative call
Quiescent == Busy = {}
\* a goroutine of Close takes its last step (c.L.Unlock(); return)
CloseReturns(c) == cpc[c] = "cl_unlock" /\ cpc'[c] = "done"

\* C1: when the call of Close that closed the gate returns, the in-flight
\* count is zero, and from then on no onRun body starts or is executing.
C1_CloseIsStrict ==
    [][ /\ \A c \in CloseThreads : CloseReturns(c) => numConn' = 0
        /\ WinnerReturned' => Bodies' = {} ]_vars

\* C2: every Accept parked in Wait when the gate is closed is eventually
\* released and returns, hard-paused or not.
C2_BlockedAcceptReleased ==
    \A a \in AcceptThreads : blockedAtCloseG[a] ~> (apc[a] = "done")

\* C3: whenever no call is in mid-step, the soft-paused flag is set if and
\* only if the in-flight count has reached the high threshold and has not
\* fallen to the low threshold since.
C3_SoftPausedIffCrossed == Quiescent => ((paused = 1) <=> latchG)

\* C4: the in-flight count is the number of Runs that were admitted and have
\* not finished (one increment per admitted Run, one decrement when its onRun
\* returns or panics); it is never negative.
C4_CountIsInFlight ==
    /\ numConn = Cardinality({t \in RunThreads : InFlight(t)})
    /\ numConn >= 0

C4_FaultedRunDecremented ==
    \E t, u \in RunThreads :
        /\ t # u
        /\ fault[t] /\ rpc[t] = "a_lo"
        /\ InBody(u)
        /\ numConn = 1

\* C5: a Run that finds the gate not closed never waits; it invokes onRun
\* exactly once, preceded by onPaused exactly when its admission check saw
\* the hard-paused or the soft-paused flag set, and never invokes onClosed.
C5_RunAlwaysRuns ==
    \A t \in RunThreads :
        /\ InAdmission(t) => (calls[t] = <<>> /\ ENABLED RunStep(t))
        /\ (rpc[t] \notin {"idle", "r_inc", "r_hp", "r_p", "r_hi", "r_cas"}
              /\ obs[t] # "closed")
             => calls[t] = IF obs[t] \in {"hard", "soft"}
                             THEN <<"onPaused", "onRun">>
                             ELSE <<"onRun">>

C5_PausedAndClearRunsDone ==
    \E t, u \in RunThreads :
        /\ rpc[t] = "done" /\ obs[t] = "soft" /\ calls[t] = <<"onPaused", "onRun">>
        /\ rpc[u] = "done" /\ obs[u] = "clear" /\ calls[u] = <<"onRun">>

\* C6: an Accept that starts after a Close has returned fails with ClosedErr
\* without calling the wrapped listener's Accept; a Run that starts after a
\* Close has returned invokes onClosed only and changes nothing of the gate.
C6_AfterCloseRejected ==
    [][ /\ \A a \in AcceptThreads :
              (afterCloseAccG'[a] /\ apc'[a] # "idle")
                 => (apc'[a] = "done" /\ aret'[a] = "ClosedErr" /\ ~UnderCalled(a)')
        /\ \A t \in RunThreads :
              (afterCloseRunG'[t] /\ rpc'[t] # "idle")
                 => /\ rpc'[t] = "done" /\ calls'[t] = <<"onClosed">>
                    /\ rpc'[t] # rpc[t] => UNCHANGED <<gate, conds, lCloseCalls>> ]_vars

C6_BothRejectedAfterClose ==
    /\ \E t \in RunThreads : afterCloseRunG[t] /\ rpc[t] = "done"
    /\ \E a \in AcceptThreads : afterCloseAccG[a] /\ apc[a] = "done"

\* C7: over any number of calls of Close the wrapped listener's Close is
\* called exactly once (by the call that closed the gate, before it waits);
\* every other call returns nil and changes nothing.
C7_CloseIdempotent ==
    [][ /\ lCloseCalls' <= 1
        /\ \A c \in CloseThreads :
              /\ cpc'[c] \in {"cl_lock", "cl_load", "cl_wait", "cl_woken",
                              "cl_unlock", "done"} => lCloseCalls' = 1
              /\ cpc'[c] = "done_noop" => cret'[c] = "nil"
              /\ (cpc[c] = "idle" /\ cpc'[c] = "done_noop")
                    => UNCHANGED <<gate, conds, lCloseCalls>> ]_vars

C7_TwoClosesReturned ==
    \E c, d \in CloseThreads :
        cpc[c] = "done" /\ cpc[d] = "done_noop" /\ lCloseCalls = 1

\* C8: the call of Close that closed the gate does not return while the
\* in-flight count is above zero.
C8_CloseWaitsForZero ==
    [][ \A c \in CloseThreads : CloseReturns(c) => numConn <= 0 ]_vars

\* C8, second half: that call returns once every admitted Run has finished
\* (no wake-up is lost).
C8_CloseEventuallyReturns ==
    \A c \in CloseThreads : (cpc[c] = "cl_lclose") ~> (cpc[c] = "done")

\* C9 as claimed: with the ceiling never reset and the gate never
\* hard-paused, the number of onRun bodies executing at once is at most the
\* ceiling plus the Runs that were inside the admission check when soft-pause
\* was engaged.
C9_BodiesBoundedByCeiling ==
    ~adminUsedG => Cardinality(Bodies) <= maxNumConnHi + raceWinG

\* C9 as amended: the number of onRun bodies executing at once never exceeds
\* the in-flight count (which the ceiling does not bound: a Run that arrives
\* while soft-pause is in effect is told so and still executes).
C9_BodiesWithinInFlight == Cardinality(Bodies) <= numConn

C9_PausedRunExceedsCeiling ==
    /\ ~adminUsedG /\ paused = 1 /\ raceWinG = 0
    /\ Cardinality(Bodies) > maxNumConnHi
    /\ \E t \in Bodies : obs[t] = "soft"

\* the scenario of C10: a gate made with ceiling 2, never reset, never
\* hard-paused
CeilingTwo == ~adminUsedG /\ maxNumConnHi = 2
\* the third Run: admitted as number 3
ThirdObservesPause ==
    \A t \in RunThreads :
        (InBody(t) /\ rn[t] = 3)
           => (obs[t] = "soft" /\ calls[t] = <<"onPaused", "onRun">>)
\* a third Run was admitted while the first two were in flight
ThirdAdmitted == \E t \in RunThreads : obs[t] = "soft"

\* C10 as claimed: the third Run observes soft-pause and still runs, and once
\* one of the first two has completed soft-pause is clear, whether or not the
\* third is still in flight.
C10_ClearsAtFirstCompletion ==
    CeilingTwo =>
        /\ ThirdObservesPause
        /\ (Quiescent /\ ThirdAdmitted
              /\ \E u \in RunThreads : rpc[u] = "done" /\ obs[u] = "clear")
             => paused = 0

\* C10 as amended: the third Run observes soft-pause and still runs, and
\* soft-pause is cleared by the completion that brings the in-flight count
\* down to 1: by the completion of one of the first two only if the third is
\* no longer in flight.
C10_ClearsAtLowThreshold ==
    CeilingTwo =>
        /\ ThirdObservesPause
        /\ (Quiescent /\ ThirdAdmitted) => ((paused = 0) <=> (numConn <= 1))

C10_ThirdInFlightStaysPaused ==
    /\ CeilingTwo /\ Quiescent /\ paused = 1 /\ numConn = 2
    /\ \E t \in RunThreads : InBody(t) /\ rn[t] = 3 /\ obs[t] = "soft"
    /\ \E u \in RunThreads : rpc[u] = "done" /\ obs[u] = "clear"

\* C11: with admissions and completions one at a time on a gate that is never
\* hard-paused, between calls the soft-paused flag is set exactly when the
\* in-flight count has been raised to the ceiling M (the ceiling in force at
\* that admission) and has not been lowered to floor(0.95*M) or below since;
\* the ceiling is at least 1, the low threshold is floor(0.95*M), and a gate
\* with ceiling 10 has low threshold 9.
C11_HysteresisThresholds ==
    Quiescent =>
        /\ (paused = 1) <=> latchG
        /\ maxNumConnHi >= 1
        /\ 100 * maxNumConnLo <= 95 * maxNumConnHi
        /\ 95 * maxNumConnHi < 100 * (maxNumConnLo + 1)
        /\ maxNumConnHi = 10 => maxNumConnLo = 9
        /\ (maxNumConnHi = 10 /\ ~resetUsedG) =>
              /\ transG = <<>> => numConn < 10
              /\ transG = <<"PAUSE">> => numConn >= 10
              /\ transG = <<"PAUSE", "UNPAUSE">> => numConn <= 9

\* a gate made with the default ceiling was filled (soft-pause set at count 10)
\* and one request has completed (cleared at count 9)
C11_DefaultClearedAtNine ==
    /\ Quiescent /\ ~resetUsedG
    /\ maxNumConnHi = 10 /\ numConn = 9 /\ paused = 0
    /\ transG = <<"PAUSE", "UNPAUSE">>

\* a gate made with ceiling 1 (low threshold 0) whose ceiling was never reset
CeilingOne == maxNumConnHi = 1 /\ maxNumConnLo = 0 /\ ~resetUsedG
NoRunInProgress == \A t \in RunThreads : rpc[t] \in {"idle", "done"}

\* C12: on a gate with ceiling 1, soft-pause is cleared only by a completion
\* whose decrement brought the in-flight count to zero, every such completion
\* goes on to the clearing compare-and-swap and leaves the flag clear, and
\* the gate is never soft-paused with nothing in flight and no Run in progress.
C12_CeilingOneClearsAtZero ==
    /\ [](CeilingOne => (numConn = 0 /\ NoRunInProgress => paused = 0))
    /\ [][ CeilingOne =>
             /\ (paused = 1 /\ paused' = 0)
                  => \E t \in RunThreads :
                        rpc[t] = "a_cas" /\ rpc'[t] = "a_sigP" /\ rn[t] = 0
             /\ \A t \in RunThreads :
                  /\ (rpc[t] = "a_lo" /\ rpc'[t] # "a_lo")
                       => (rpc'[t] = "a_cas" <=> rn[t] = 0)
                  /\ (rpc[t] = "a_cas" /\ rpc'[t] # "a_cas") => paused' = 0 ]_vars

\* one request has completed and left the count at 1: soft-pause is still set
C12_StillPausedAtOne ==
    /\ CeilingOne /\ paused = 1 /\ numConn = 1
    /\ \E t, u \in RunThreads :
          rpc[t] = "done" /\ calls[t] = <<"onRun">> /\ InBody(u)

\* C13: the successful transitions of the paused flag alternate, PAUSE first;
\* a step logs a transition exactly when it changes the flag (so of the
\* Runs that saw the count at or above the high threshold one enters, and
\* of the completions at or below the low threshold one clears); the
\* goroutine that clears, and no other, goes on to broadcast pausedCond,
\* and the broadcast wakes every parked Accept.
C13_TransitionsAlternate ==
    /\ [](/\ \A i \in 1..Len(transG) :
                transG[i] = IF i % 2 = 1 THEN "PAUSE" ELSE "UNPAUSE"
          /\ paused = Len(transG) % 2)
    /\ [][ /\ (transG' # transG) <=> (paused' # paused)
           /\ (paused = 1 /\ paused' = 0)
                <=> \E t \in RunThreads : rpc[t] # "a_sigP" /\ rpc'[t] = "a_sigP"
           /\ \A t \in RunThreads :
                (rpc[t] = "a_sigP" /\ rpc'[t] # "a_sigP")
                   => \A a \in AcceptThreads :
                         apc[a] = "ac_wait" => apc'[a] = "ac_woken" ]_vars

\* two Runs both saw the count at or above the high threshold with the flag
\* clear, both went to the compare-and-swap, and one transition was made
C13_TwoCrossedOneEntered ==
    /\ transG = <<"PAUSE">>
    /\ \E t, u \in RunThreads :
          /\ t # u /\ InBody(t) /\ InBody(u)
          /\ obs[t] = "clear" /\ obs[u] = "clear"
          /\ rn[t] >= maxNumConnHi /\ rn[u] >= maxNumConnHi
    /\ ~adminUsedG

\* C14: whenever a Run admission loads the high threshold or a completion
\* loads the low one, the low threshold is floor(0.95 * high) (and so not
\* above it).
C14_ThresholdsConsistent ==
    [][ (\E t \in RunThreads : rpc[t] \in {"r_hi", "a_lo"} /\ rpc'[t] # rpc[t])
          => (maxNumConnLo = LoOf(maxNumConnHi) /\ maxNumConnLo <= maxNumConnHi) ]_vars

\* C15: an Accept that found the gate not closed goes on to the wrapped
\* listener's Accept only from the load that found paused clear, which it
\* reaches only from the load that found hardPaused clear; and while a flag
\* has been set ever since the call began, the call has neither reached the
\* wrapped listener's Accept nor returned.
C15_AcceptWaitsForBothFlags ==
    /\ [](\A a \in AcceptThreads :
             flagHeldG[a] # {} => (~UnderCalled(a) /\ apc[a] # "done"))
    /\ [][ \A a \in AcceptThreads :
             /\ (UnderCalled(a)' /\ ~UnderCalled(a))
                  => (apc[a] = "ac_p" /\ paused = 0)
             /\ (apc'[a] = "ac_p" /\ apc[a] # "ac_p")
                  => (apc[a] = "ac_hp" /\ hardPaused = 0) ]_vars

\* an Accept parked under both flags was woken when soft-pause was cleared,
\* with hard pause still in force
C15_WokenWhileHardPaused ==
    \E a \in AcceptThreads :
        apc[a] = "ac_woken" /\ flagHeldG[a] = {"hard"} /\ transG = <<"PAUSE", "UNPAUSE">>

\* a step of HardPause or of ResumeFromHardPause
HardPauseOrResumeStep ==
    \/ mpc \in {"hp_store", "rs_store", "rs_sig"} /\ mpc' # mpc
    \/ mpc = "idle" /\ mpc' \in {"hp_store", "rs_store"}
    \/ mpc = "idle" /\ mpc' = "idle" /\ ncalls' # ncalls
          /\ UNCHANGED <<runv, accv, clov, wpc>>
\* a step of a Run goroutine
RunMoves == \E t \in RunThreads : rpc'[t] # rpc[t]

\* C17: a step of HardPause or ResumeFromHardPause leaves the in-flight
\* count, the soft-paused flag, the closed flag and both thresholds as they
\* are; only such a step changes the hard-paused flag, and no step of a Run
\* does.
C17_HardPauseIndependent ==
    [][ /\ HardPauseOrResumeStep
             => UNCHANGED <<numConn, paused, closed, maxNumConnHi, maxNumConnLo>>
        /\ hardPaused' # hardPaused => HardPauseOrResumeStep
        /\ RunMoves => hardPaused' = hardPaused ]_vars

\* hard pause was engaged while a request was in flight and
\* soft-pause was set
C17_HardPausedUnderLoad ==
    /\ hardPaused = 1 /\ paused = 1 /\ numConn >= 1 /\ mpc = "idle"
    /\ \E t \in RunThreads : InBody(t)

\* C16: an Accept parked in Wait with soft-pause set and hard pause clear
\* goes on to the wrapped listener's Accept once the admitted Runs have
\* finished, unless the gate is hard-paused in the meantime.
C16_SoftBlockedAcceptReleased ==
    \A a \in AcceptThreads :
        (apc[a] = "ac_wait" /\ paused = 1 /\ hardPaused = 0)
           ~> (UnderCalled(a) \/ hardPaused = 1)

\* an Accept parked under soft-pause (the gate was never hard-paused) has
\* been woken by the completion that cleared it
C16_WokenBySoftClear ==
    \E a \in AcceptThreads :
        apc[a] = "ac_woken" /\ ~adminUsedG /\ transG = <<"PAUSE", "UNPAUSE">>

\* C18: WaitZeroInflight goes on to return only from a load that found the
\* in-flight count zero; no step that moves it changes a field of the gate
\* or closes the wrapped listener; once it has returned a Run is admitted
\* as before; and every call returns once the admitted Runs have finished.
C18_WaitZeroIsDrainBarrier ==
    /\ [][ \A w \in WaitZeroThreads :
             /\ (wpc'[w] = "wz_unlock" /\ wpc[w] # "wz_unlock")
                  => (wpc[w] = "wz_load" /\ numConn = 0)
             /\ (wpc'[w] = "done" /\ wpc[w] # "done") => wpc[w] = "wz_unlock"
             /\ wpc'[w] # wpc[w] => UNCHANGED <<gate, lCloseCalls>> ]_vars
    /\ []((\E w \in WaitZeroThreads : wpc[w] = "done")
            => \A t \in RunThreads :
                  /\ InAdmission(t) => ENABLED RunStep(t)
                  /\ (InBody(t) /\ obs[t] # "closed") => "onRun" = calls[t][Len(calls[t])])
    /\ \A w \in WaitZeroThreads : (wpc[w] \notin {"idle", "done"}) ~> (wpc[w] = "done")

\* a WaitZeroInflight that found a request in flight and parked has been
\* woken by the completion that brought the count to zero, on an open gate
C18_WokenAtZero ==
    \E w \in WaitZeroThreads :
        wpc[w] = "wz_woken" /\ numConn = 0 /\ closed = 0

(* ========================== Part 2: responseWriter ===================== *)
\* the status codes handed to WriteHeader: one that is not positive,
\* http.StatusNotFound, http.StatusServiceUnavailable
Codes == {-1, 404, 503}
WriteLens == 0..MaxWriteLen

\* if t.code <= 0 { return http.StatusOK }; return t.code
ResponseCode == IF code <= 0 THEN StatusOK ELSE code
NumBytesWritten == numBytesW
IsHeaderWritten == headerWritten

\* ensureHeaderWritten: the call it makes on t.w
\* if !t.headerWritten { t.w.WriteHeader(t.ResponseCode()); t.headerWritten = true }
EnsureHeaderWritten ==
    IF ~headerWritten THEN << <<"WriteHeader", ResponseCode>> >> ELSE <<>>

\* mutant: the status is passed on at once (the call the source has
\* commented out)
WriteHeader_Commits(c) ==
    /\ Len(opsG) < MaxOps
    /\ opsG' = Append(opsG, <<"WriteHeader", c>>)
    /\ IF headerWritten
         THEN UNCHANGED <<code, wCalls, headerWritten>>
         ELSE /\ code' = c
              /\ wCalls' = Append(wCalls, <<"WriteHeader", c>>)
              /\ headerWritten' = TRUE
    /\ UNCHANGED <<numBytesW, wIsFlusher, listenerv, pipev, extv>>

\* mutant: the code is recorded whether or not the header was written
WriteHeader_AlwaysRecords(c) ==
    /\ Len(opsG) < MaxOps
    /\ opsG' = Append(opsG, <<"WriteHeader", c>>)
    /\ code' = c
    /\ UNCHANGED <<headerWritten, numBytesW, wCalls, wIsFlusher, listenerv, pipev, extv>>

\* mutant: only the first WriteHeader call is recorded
WriteHeader_KeepsFirst(c) ==
    /\ Len(opsG) < MaxOps
    /\ opsG' = Append(opsG, <<"WriteHeader", c>>)
    /\ code' = IF headerWritten \/ (\E i \in 1..Len(opsG) : opsG[i][1] = "WriteHeader")
                THEN code ELSE c
    /\ UNCHANGED <<headerWritten, numBytesW, wCalls, wIsFlusher, listenerv, pipev, extv>>

\* if t.headerWritten { return }; t.code = code
WriteHeader(c) ==
    /\ Len(opsG) < MaxOps
    /\ opsG' = Append(opsG, <<"WriteHeader", c>>)
    /\ code' = IF headerWritten THEN code ELSE c
    /\ UNCHANGED <<headerWritten, numBytesW, wCalls, wIsFlusher, listenerv, pipev, extv>>

\* mutant: ensureHeaderWritten does not record that it wrote the header
Write_HeaderNotRecorded(len, i) ==
    /\ Len(opsG) < MaxOps
    /\ opsG' = Append(opsG, <<"Write", len>>)
    /\ wCalls' = (wCalls \o EnsureHeaderWritten) \o << <<"Write", len, i>> >>
    /\ numBytesW' = numBytesW + i
    /\ UNCHANGED <<headerWritten, code, wIsFlusher, listenerv, pipev, extv>>

\* mutant: the length asked for is counted, not the length reported
Write_CountsLen(len, i) ==
    /\ Len(opsG) < MaxOps
    /\ opsG' = Append(opsG, <<"Write", len>>)
    /\ wCalls' = (wCalls \o EnsureHeaderWritten) \o << <<"Write", len, i>> >>
    /\ headerWritten' = TRUE
    /\ numBytesW' = numBytesW + len
    /\ UNCHANGED <<code, wIsFlusher, listenerv, pipev, extv>>

\* t.ensureHeaderWritten(); i, err = t.w.Write(b); t.numBytesW += int64(i)
\* (len is len(b), i the count that t.w.Write reports)
Write(len, i) ==
    /\ Len(opsG) < MaxOps
    /\ opsG' = Append(opsG, <<"Write", len>>)
    /\ wCalls' = (wCalls \o EnsureHeaderWritten) \o << <<"Write", len, i>> >>
    /\ headerWritten' = TRUE
    /\ numBytesW' = numBytesW + i
    /\ UNCHANGED <<code, wIsFlusher, listenerv, pipev, extv>>

\* t.ensureHeaderWritten(); if wt, ok := t.w.(http.Flusher); ok { wt.Flush() }
Flush ==
    /\ Len(opsG) < MaxOps
    /\ opsG' = Append(opsG, <<"Flush">>)
    /\ wCalls' = (wCalls \o EnsureHeaderWritten)
                    \o (IF wIsFlusher THEN << <<"Flush">> >> ELSE <<>>)
    /\ headerWritten' = TRUE
    /\ UNCHANGED <<code, numBytesW, wIsFlusher, listenerv, pipev, extv>>

\* a fresh responseWriter around a sink that is, or is not, an http.Flusher
InitRW ==
    /\ InitListener(RunNames, {0})
    /\ InitResponseWriter
    /\ wIsFlusher \in BOOLEAN
    /\ InitNoRequests
    /\ InitNoWatcher /\ InitNoStore

NextRW ==
    \/ \E c \in Codes : WriteHeader(c)
    \/ \E len \in WriteLens : \E i \in 0..len : Write(len, i)
    \/ Flush

SpecRW == InitRW /\ [][NextRW]_vars

(* ==================== claims about the responseWriter ================== *)
\* the calls of one kind that the wrapped sink has received
Received(kind) == {i \in 1..Len(wCalls) : wCalls[i][1] = kind}
\* a Write or a Flush has been called
WroteOrFlushed == \E i \in 1..Len(opsG) : opsG[i][1] \in {"Write", "Flush"}

\* C19: the wrapped sink receives WriteHeader at most once, as the first
\* call it receives, with the recorded code (200 if that is not positive);
\* it has received it exactly when a Write or Flush has been called; the
\* headerWritten flag is set in that very Write or Flush and never reset.
C19_StatusWrittenOnce ==
    /\ [](/\ Cardinality(Received("WriteHeader")) <= 1
          /\ wCalls # <<>> => wCalls[1][1] = "WriteHeader"
          /\ headerWritten <=> WroteOrFlushed
          /\ headerWritten <=> wCalls # <<>>
          /\ headerWritten
               => wCalls[1] = <<"WriteHeader", IF code <= 0 THEN 200 ELSE code>>)
    /\ [][ /\ headerWritten => headerWritten'
           /\ (~headerWritten /\ headerWritten')
                => /\ opsG'[Len(opsG')][1] \in {"Write", "Flush"}
                   /\ wCalls = <<>> /\ wCalls'[1][1] = "WriteHeader" ]_vars

\* two Writes with no positive code recorded: one status write, 200, first
C19_DefaultStatusThenTwoWrites ==
    /\ code <= 0 /\ Len(wCalls) = 3
    /\ wCalls[1] = <<"WriteHeader", 200>>
    /\ wCalls[2][1] = "Write" /\ wCalls[3][1] = "Write"

\* C20: as long as only WriteHeader has been called the sink is not
\* committed and the wrapped sink has received nothing; after
\* WriteHeader(404) and then a Write the wrapper reports status 404 and
\* reports committed, and it did not report committed before that Write.
C20_StatusDoesNotCommit ==
    /\ (\A i \in 1..Len(opsG) : opsG[i][1] = "WriteHeader")
          => (~IsHeaderWritten /\ wCalls = <<>>)
    /\ opsG = << <<"WriteHeader", 404>> >> => (~IsHeaderWritten /\ ResponseCode = 404)
    /\ (Len(opsG) >= 2 /\ opsG[1] = <<"WriteHeader", 404>> /\ opsG[2][1] = "Write")
          => (IsHeaderWritten /\ ResponseCode = 404
              /\ wCalls[1] = <<"WriteHeader", 404>>)

C20_NotFoundThenWrite ==
    /\ Len(opsG) = 2 /\ opsG[1] = <<"WriteHeader", 404>> /\ opsG[2][1] = "Write"
    /\ IsHeaderWritten /\ ResponseCode = 404

\* the call being made in this step
LastOp == opsG'[Len(opsG')]
RWCalled == Len(opsG') = Len(opsG) + 1

\* C21: a WriteHeader call on a committed sink changes neither the status
\* that ResponseCode reports, nor the committed flag, nor the byte count,
\* nor what the wrapped sink has received.
C21_WriteHeaderIgnoredOnceCommitted ==
    [][ (RWCalled /\ LastOp[1] = "WriteHeader" /\ IsHeaderWritten)
          => /\ ResponseCode' = ResponseCode
             /\ IsHeaderWritten' = IsHeaderWritten
             /\ NumBytesWritten' = NumBytesWritten
             /\ wCalls' = wCalls ]_vars

\* WriteHeader(503) was called on a sink committed with 404
C21_LateStatusIgnored ==
    /\ Len(opsG) >= 3 /\ opsG[Len(opsG)] = <<"WriteHeader", 503>>
    /\ wCalls # <<>> /\ wCalls[1] = <<"WriteHeader", 404>> /\ ResponseCode = 404

\* the sum of the counts that the wrapped sink's Write has reported
RECURSIVE SumReported(_)
SumReported(calls_) ==
    IF calls_ = <<>> THEN 0
    ELSE (IF Head(calls_)[1] = "Write" THEN Head(calls_)[3] ELSE 0)
            + SumReported(Tail(calls_))

\* C22: NumBytesWritten is the sum of the counts that the wrapped sink
\* reported for the Writes made (a Write that reports less than it was given
\* is one that returned an error); it never decreases, and WriteHeader and
\* Flush leave it unchanged.
C22_ByteCountIsSumReported ==
    /\ [](NumBytesWritten = SumReported(wCalls))
    /\ [][ /\ NumBytesWritten' >= NumBytesWritten
           /\ (RWCalled /\ LastOp[1] \in {"WriteHeader", "Flush"})
                => NumBytesWritten' = NumBytesWritten ]_vars

\* a short Write (2 given, 1 reported) and a full one: 1 + 2 bytes counted
C22_ShortWriteCounted ==
    /\ \E k \in 1..Len(wCalls) : wCalls[k] = <<"Write", 2, 1>>
    /\ \E k \in 1..Len(wCalls) : wCalls[k] = <<"Write", 2, 2>>
    /\ NumBytesWritten = 3


(* ===================================================================== *)
(* Part 3: the Pipeline, the pooled stages and HTTPServer.ServeHTTP.      *)
(*                                                                         *)
(* Every request is served by one goroutine; its call stack is a sequence *)
(* of frames, one per call of ServeHTTP or of a stage's ServeHttpPipe.    *)
(* One step is one call of Pipeline.Next, one call made on a              *)
(* ResponseWriter (with everything the wrappers below it do), or one step *)
(* of Listener.Run (Part 1).  A byte is "t" (a letter) or "z" (a zero     *)
(* byte); what a gzip.Writer emits are the header "H", one "T" or "Z" per *)
(* deflated byte, the sync marker "S" of a Flush, the end-of-stream       *)
(* marker "F", and the trailer: "E" and one "e" per byte of the size      *)
(* field.  The pool of go-common has one idle list per pool; Get and Put  *)
(* are atomic (the pool locks), and call the function that the stage gave *)
(* to pool.New.                                                            *)
(* ===================================================================== *)

(* ------------------------------ bounds --------------------------------- *)
\* number of calls the application handler makes on its ResponseWriter
MaxHandlerOps == 3
\* size of the pooled bufio.Writers (NewBufferPipe's size)
BufSize == 2
\* bytes that the compressor holds before it emits a block by itself
WindowSize == 4
\* capacity of the pools (poolCap)
PoolCap == 1
\* number of stages of a Pipeline made directly with NewPipeline
MaxStages == 3
\* number of times an application stage calls Next
MaxForward == 2
\* number of Next calls the maker of a Pipeline makes itself
MaxOutside == 2

(* --------------------------- program constants ------------------------- *)
\* http.StatusServiceUnavailable
StatusServiceUnavailable == 503
OnPanicRecover == "OnPanicRecover"

(* ------------------------------- inputs -------------------------------- *)
Reqs == DOMAIN stack
\* the Accept-Encoding headers that requests carry
AcceptEncodings == {"identity", "deflate, gzip"}
\* the Content-Type and Content-Encoding values that handlers set
HandlerContentTypes == {"text/html", "image/png"}
HandlerContentEncodings == {"br"}
HandlerCodes == {404}
\* the byte slices that handlers write: empty, a zero byte, and
\* letters that do not fit a pooled buffer
WriteInputs == {<<>>, <<"z">>, [k \in 1..(BufSize + 1) |-> "t"]}
\* HTTPServer.Pipes
PipeConfigs ==
    { <<"handler">>, <<"gzip", "handler">>, <<"buffer", "handler">>,
      <<"gzip", "buffer", "handler">>, <<"buffer", "gzip", "handler">> }
\* the stages handed to NewPipeline by a maker that drives the Pipeline
ChainConfigs == UNION {[1..n -> {"app"}] : n \in 0..MaxStages}

(* ------------------------- library functions --------------------------- *)
\* strings.Contains(r.Header.Get("Accept-Encoding"), "gzip"), on AcceptEncodings
ContainsGzip(ae) ==
    CASE ae = "identity" -> FALSE
      [] ae = "deflate, gzip" -> TRUE
      [] ae = "gzip" -> TRUE
      [] OTHER -> FALSE

\* http.DetectContentType(b): no signature matches letters or zero bytes, so
\* the result is text/plain unless a binary byte is among the first 512
DetectContentType(b) ==
    IF \E k \in 1..Len(b) : b[k] = "z"
      THEN "application/octet-stream"
      ELSE "text/plain; charset=utf-8"

\* gzipTypes.MatchString(ctype) for `^text/|(json|javascript|plain|html|css|xml)`,
\* on the content types of this model
GzipTypesMatch(ctype) ==
    CASE ctype = "text/html" -> TRUE                    \* ^text/
      [] ctype = "text/plain; charset=utf-8" -> TRUE    \* ^text/
      [] ctype = "image/png" -> FALSE
      [] ctype = "application/octet-stream" -> FALSE
      [] OTHER -> FALSE

\* what flate makes of bytes, and back
Deflate(b) == [k \in 1..Len(b) |-> IF b[k] = "t" THEN "T" ELSE "Z"]
Inflate(d) == [k \in 1..Len(d) |-> IF d[k] = "T" THEN "t" ELSE "z"]
\* the gzip trailer for a stream of n bytes
Trailer(n) == <<"E">> \o [k \in 1..n |-> "e"]
IsData(x) == x \in {"T", "Z"}
InvalidGzip == <<"invalid gzip stream">>
\* gzip.NewReader + ReadAll: the bytes of a complete stream, InvalidGzip for
\* anything else (no header, no end of stream, a trailer that does not match)
Gunzip(s) ==
    IF \E f \in 2..Len(s) :
          /\ s[1] = "H" /\ s[f] = "F"
          /\ \A k \in 2..(f - 1) : s[k] \in {"T", "Z", "S"}
          /\ SubSeq(s, f + 1, Len(s))
                = Trailer(Len(SelectSeq(SubSeq(s, 2, f - 1), IsData)))
      THEN LET f == CHOOSE f \in 2..Len(s) : s[f] = "F" /\ \A k \in 2..(f - 1) : s[k] # "F"
           IN  Inflate(SelectSeq(SubSeq(s, 2, f - 1), IsData))
      ELSE InvalidGzip

(* ------------------- the state that writers work on -------------------- *)
\* ioutil.Discard as the target of a pooled writer
Discard == [r |-> 0, w |-> 0]
\* n and err are the results of the call just made
Cur ==
    [wrs |-> wrs, rws |-> rws, hdr |-> hdr, raw |-> raw, broken |-> broken,
     gzw |-> gzw, gzIdle |-> gzIdle, bfw |-> bfw, bfIdle |-> bfIdle,
     evG |-> evG, n |-> 0, err |-> FALSE]
Becomes(m) ==
    /\ wrs' = m.wrs /\ rws' = m.rws /\ hdr' = m.hdr /\ raw' = m.raw
    /\ gzw' = m.gzw /\ gzIdle' = m.gzIdle /\ bfw' = m.bfw /\ bfIdle' = m.bfIdle
    /\ evG' = m.evG
Returns(m, n, err) == [m EXCEPT !.n = n, !.err = err]
Log(m, r, e) == [m EXCEPT !.evG[r] = Append(@, e)]
\* the call tag on the pooled writer id has returned, with or without an error
LogCall(m, r, tag, kind, id) == Log(m, r, <<tag, kind, id, m.err>>)

(* ----------------------- the raw http.ResponseWriter ------------------- *)
\* net/http: the first WriteHeader sends the status and the header map as it
\* is then; later calls are ignored
rawWriteHeader(m, r, c) ==
    IF m.raw[r].status # 0 THEN m
    ELSE [m EXCEPT !.raw[r].status = c, !.raw[r].hdr = m.hdr[r]]

\* net/http: Write sends the bytes, or fails when the connection is gone
rawWrite(m, r, b) ==
    IF m.broken[r] THEN Returns(m, 0, TRUE)
    ELSE Returns([rawWriteHeader(m, r, StatusOK) EXCEPT !.raw[r].body = @ \o b],
                 Len(b), FALSE)

rawFlush(m, r) ==
    [rawWriteHeader(m, r, StatusOK) EXCEPT !.raw[r].flushes = @ + 1]

(* ----------------------------- responseWriter -------------------------- *)
rwResponseCode(m, r) == IF m.rws[r].code <= 0 THEN StatusOK ELSE m.rws[r].code

\* if !t.headerWritten { t.w.WriteHeader(t.ResponseCode()); t.headerWritten = true }
rwEnsureHeaderWritten(m, r) ==
    IF ~m.rws[r].headerWritten
      THEN [rawWriteHeader(m, r, rwResponseCode(m, r)) EXCEPT !.rws[r].headerWritten = TRUE]
      ELSE m

\* t.ensureHeaderWritten(); i, err = t.w.Write(b); t.numBytesW += int64(i)
rwCount(m, r) == [m EXCEPT !.rws[r].numBytesW = @ + m.n]
rwWrite(m, r, b) == rwCount(rawWrite(rwEnsureHeaderWritten(m, r), r, b), r)

\* t.ensureHeaderWritten(); wt.Flush()
rwFlush(m, r) == rawFlush(rwEnsureHeaderWritten(m, r), r)

\* if t.headerWritten { return }; t.code = code
rwWriteHeader(m, r, c) ==
    IF m.rws[r].headerWritten THEN m ELSE [m EXCEPT !.rws[r].code = c]

(* --------------------------------- pools ------------------------------- *)
\* gzip.NewWriterLevel(ioutil.Discard, level) and z.Reset(w)
gzFresh(tgt) ==
    [tgt |-> tgt, wroteHeader |-> FALSE, pend |-> <<>>, size |-> 0,
     closed |-> FALSE, err |-> FALSE]
\* bufio.NewWriterSize(ioutil.Discard, s.size) and b.Reset(w)
bfFresh(tgt) == [tgt |-> tgt, buf |-> <<>>, err |-> FALSE]

\* the pool's function for GET with v == nil: a new writer on ioutil.Discard
poolMake(m, kind) ==
    IF kind = "gz" THEN [m EXCEPT !.gzw = Append(@, gzFresh(Discard))]
                   ELSE [m EXCEPT !.bfw = Append(@, bfFresh(Discard))]
poolIdle(m, kind) == IF kind = "gz" THEN m.gzIdle ELSE m.bfIdle
poolMade(m, kind) == IF kind = "gz" THEN Len(m.gzw) ELSE Len(m.bfw)
\* the writer numbered id leaves the idle list
poolTake(m, kind) ==
    IF kind = "gz" THEN [m EXCEPT !.gzIdle = Tail(@)] ELSE [m EXCEPT !.bfIdle = Tail(@)]

\* mutant: Get hands out an idle writer and leaves it on the idle list
poolGet_KeepsIdle(m, r, kind) ==
    IF poolIdle(m, kind) = <<>>
      THEN Returns(Log(poolMake(m, kind), r, <<"get", kind, poolMade(m, kind) + 1>>),
                   poolMade(m, kind) + 1, FALSE)
      ELSE Returns(Log(m, r, <<"get", kind, Head(poolIdle(m, kind))>>),
                   Head(poolIdle(m, kind)), FALSE)

\* pool.Must(s.pool.Get(0)): an idle writer if there is one, else the one
\* that the pool's function makes
poolGet(m, r, kind) ==
    IF poolIdle(m, kind) = <<>>
      THEN Returns(Log(poolMake(m, kind), r, <<"get", kind, poolMade(m, kind) + 1>>),
                   poolMade(m, kind) + 1, FALSE)
      ELSE Returns(Log(poolTake(m, kind), r, <<"get", kind, Head(poolIdle(m, kind))>>),
                   Head(poolIdle(m, kind)), FALSE)

\* the pool's function for PUT: gv.Reset(ioutil.Discard), bv.Reset(ioutil.Discard)
poolReset(m, r, kind, id) ==
    Log(IF kind = "gz" THEN [m EXCEPT !.gzw[id] = gzFresh(Discard)]
                       ELSE [m EXCEPT !.bfw[id] = bfFresh(Discard)],
        r, <<"reset", kind, id>>)
\* the writer joins the idle list; the gzip pool's function drops it when
\* the list is at poolCap
poolKeep(m, kind, id) ==
    IF kind = "gz"
      THEN IF Len(m.gzIdle) >= PoolCap THEN m ELSE [m EXCEPT !.gzIdle = Append(@, id)]
      ELSE [m EXCEPT !.bfIdle = Append(@, id)]

\* t.s.pool.Put(v)
poolPut(m, r, kind, id) ==
    poolKeep(poolReset(Log(m, r, <<"put", kind, id>>), r, kind, id), kind, id)

(* ------------------ gzip.Writer, bufio.Writer, the wrappers ------------ *)
RECURSIVE WWrite(_, _, _, _)
RECURSIVE Emit(_, _, _, _)
RECURSIVE gzWrite(_, _, _)
RECURSIVE bufioFlush(_, _)
RECURSIVE bufioWrite(_, _, _, _)
RECURSIVE gzipWriterWrite(_, _, _, _)
RECURSIVE bufWriterWrite(_, _, _, _)

\* what the target of a pooled writer answered
Delivered(m, r, kind, id, b) ==
    IF m.err THEN m ELSE Returns(Log(m, r, <<"deliver", kind, id, b>>), m.n, FALSE)
EmitTo(m, tgt, kind, id, b) ==
    IF tgt = Discard THEN Returns(m, Len(b), FALSE)
    ELSE Delivered(WWrite(m, tgt.r, tgt.w, b), tgt.r, kind, id, b)
\* z.w.Write(b) / b.wr.Write(b): a pooled writer writes to its target
Emit(m, kind, id, b) ==
    EmitTo(m, IF kind = "gz" THEN m.gzw[id].tgt ELSE m.bfw[id].tgt, kind, id, b)

\* gzip.Writer keeps the error of a write to z.w in z.err
gzResult(m, id, n) == Returns([m EXCEPT !.gzw[id].err = m.err], n, m.err)

\* the 10-byte header that gzip.Writer writes to z.w before the first data
gzWriteHeader(m, id) ==
    IF m.gzw[id].wroteHeader THEN m
    ELSE gzResult(Emit([m EXCEPT !.gzw[id].wroteHeader = TRUE], "gz", id, <<"H">>), id, 0)

\* z.compressor.Write(p): flate emits a block without being flushed when its
\* window is full
gzCompress(m, id, p) ==
    IF m.gzw[id].err THEN Returns(m, 0, TRUE)
    ELSE IF Len(m.gzw[id].pend) + Len(p) >= WindowSize
      THEN gzResult(Emit([m EXCEPT !.gzw[id].pend = <<>>, !.gzw[id].size = @ + Len(p)],
                         "gz", id, Deflate(m.gzw[id].pend \o p)), id, Len(p))
      ELSE Returns([m EXCEPT !.gzw[id].pend = @ \o p, !.gzw[id].size = @ + Len(p)],
                   Len(p), FALSE)

\* gzip.Writer.Write
gzWrite(m, id, p) ==
    IF m.gzw[id].err THEN Returns(m, 0, TRUE)
    ELSE gzCompress(gzWriteHeader(m, id), id, p)

\* z.compressor.Flush(): the pending data and a sync marker
gzSync(m, id) ==
    IF m.gzw[id].err THEN Returns(m, 0, TRUE)
    ELSE gzResult(Emit([m EXCEPT !.gzw[id].pend = <<>>], "gz", id,
                       Deflate(m.gzw[id].pend) \o <<"S">>), id, 0)

\* gzip.Writer.Flush
gzFlush(m, id) ==
    IF m.gzw[id].err THEN Returns(m, 0, TRUE)
    ELSE IF m.gzw[id].closed THEN Returns(m, 0, FALSE)
    ELSE gzSync(gzWriteHeader(m, id), id)

\* the trailer: checksum and size of what was written
gzTrailer(m, id) ==
    IF m.err THEN Returns([m EXCEPT !.gzw[id].err = TRUE], 0, TRUE)
    ELSE gzResult(Emit(m, "gz", id, Trailer(m.gzw[id].size)), id, 0)

\* z.compressor.Close(): the pending data and the end of the stream
gzFinish(m, id) ==
    IF m.gzw[id].err THEN Returns(m, 0, TRUE)
    ELSE gzTrailer(Emit([m EXCEPT !.gzw[id].pend = <<>>], "gz", id,
                        Deflate(m.gzw[id].pend) \o <<"F">>), id)

\* gzip.Writer.Close
gzClose(m, id) ==
    IF m.gzw[id].err THEN Returns(m, 0, TRUE)
    ELSE IF m.gzw[id].closed THEN Returns(m, 0, FALSE)
    ELSE gzFinish(gzWriteHeader([m EXCEPT !.gzw[id].closed = TRUE], id), id)

\* what b.wr.Write(buf) answered to Flush: a short write is an error, and
\* what was not written stays in the buffer
bufioFlushed(m, id, buf) ==
    IF m.err \/ m.n < Len(buf)
      THEN Returns([m EXCEPT !.bfw[id].buf = SubSeq(buf, m.n + 1, Len(buf)),
                             !.bfw[id].err = TRUE], 0, TRUE)
      ELSE Returns([m EXCEPT !.bfw[id].buf = <<>>], 0, FALSE)

\* bufio.Writer.Flush
bufioFlush(m, id) ==
    IF m.bfw[id].err THEN Returns(m, 0, TRUE)
    ELSE IF m.bfw[id].buf = <<>> THEN Returns(m, 0, FALSE)
    ELSE bufioFlushed(Emit(m, "bf", id, m.bfw[id].buf), id, m.bfw[id].buf)

\* n, b.err = b.wr.Write(p); nn += n; p = p[n:]
bufioWrote(m, id, p, nn) ==
    bufioWrite([m EXCEPT !.bfw[id].err = m.err], id, SubSeq(p, m.n + 1, Len(p)), nn + m.n)

\* n = copy(b.buf[b.n:], p); b.n += n; b.Flush(); nn += n; p = p[n:]
bufioFill(m, id, p, nn, avail) ==
    bufioWrite(bufioFlush([m EXCEPT !.bfw[id].buf = @ \o SubSeq(p, 1, avail)], id),
               id, SubSeq(p, avail + 1, Len(p)), nn + avail)

\* bufio.Writer.Write; nn is the count so far
bufioWrite(m, id, p, nn) ==
    IF Len(p) > BufSize - Len(m.bfw[id].buf) /\ ~m.bfw[id].err
      THEN IF m.bfw[id].buf = <<>>
             THEN \* large write, empty buffer: written directly
                  bufioWrote(Emit(m, "bf", id, p), id, p, nn)
             ELSE bufioFill(m, id, p, nn, BufSize - Len(m.bfw[id].buf))
      ELSE IF m.bfw[id].err THEN Returns(m, nn, TRUE)
      ELSE Returns([m EXCEPT !.bfw[id].buf = @ \o p], nn + Len(p), FALSE)

\* t.gw = pool.Must(t.s.pool.Get(0)).(*gzip.Writer); t.gw.Reset(t.ResponseWriter)
gzipWriterBind(m, r, w) ==
    [m EXCEPT !.wrs[r][w].gw = m.n, !.wrs[r][w].held = TRUE,
              !.gzw[m.n] = gzFresh([r |-> r, w |-> m.wrs[r][w].inner])]

\* if gzipTypes.MatchString(ctype) { t.Header().Set("Content-Encoding", "gzip"); ... }
gzipWriterDecide(m, r, w) ==
    IF GzipTypesMatch(m.hdr[r].ct)
      THEN gzipWriterBind(poolGet([m EXCEPT !.hdr[r].ce = "gzip"], r, "gz"), r, w)
      ELSE m

\* mutant: a Content-Encoding that is already set does not stop the compression
gzipWriterStart_IgnoresEncoding(m, r, w, b) ==
    gzipWriterDecide([m EXCEPT !.hdr[r].ct = IF @ = "" THEN DetectContentType(b) ELSE @],
                     r, w)

\* cEnc := t.Header().Get("Content-Encoding"); if cEnc == "" { ctype :=
\* t.Header().Get("Content-Type"); if ctype == "" { ctype =
\* http.DetectContentType(b); t.Header().Set("Content-Type", ctype) } ... }
gzipWriterStart(m, r, w, b) ==
    IF m.hdr[r].ce = ""
      THEN gzipWriterDecide([m EXCEPT !.hdr[r].ct = IF @ = "" THEN DetectContentType(b)
                                                                ELSE @], r, w)
      ELSE m

\* if t.gw != nil { i, err = t.gw.Write(b) } else { i, err = t.ResponseWriter.Write(b) }
gzipWriterRoute(m, r, w, b) ==
    IF m.wrs[r][w].gw # 0 THEN gzWrite(m, m.wrs[r][w].gw, b)
    ELSE WWrite(m, r, m.wrs[r][w].inner, b)

\* gzipWriter.Write
gzipWriterWrite(m, r, w, b) ==
    gzipWriterRoute(IF ~m.wrs[r][w].started
                      THEN gzipWriterStart([m EXCEPT !.wrs[r][w].in = @ \o b,
                                                     !.wrs[r][w].started = TRUE], r, w, b)
                      ELSE [m EXCEPT !.wrs[r][w].in = @ \o b],
                    r, w, b)

\* mutant: the buffer keeps what fits and the rest is reported as written
bufWriterWrite_DropsOverflow(m, r, w, b) ==
    Returns([m EXCEPT !.wrs[r][w].in = @ \o b,
                      !.bfw[m.wrs[r][w].b].buf = IF Len(@ \o b) <= BufSize THEN @ \o b
                                                 ELSE SubSeq(@ \o b, 1, BufSize)],
            Len(b), FALSE)

\* bufWriter.Write: return t.b.Write(b)
bufWriterWrite(m, r, w, b) ==
    bufioWrite([m EXCEPT !.wrs[r][w].in = @ \o b], m.wrs[r][w].b, b, 0)

\* Write on the ResponseWriter numbered w of request r
WWrite(m, r, w, b) ==
    CASE m.wrs[r][w].kind = "rw" -> rwWrite([m EXCEPT !.wrs[r][w].in = @ \o b], r, b)
      [] m.wrs[r][w].kind = "gz" -> gzipWriterWrite(m, r, w, b)
      [] m.wrs[r][w].kind = "buf" -> bufWriterWrite(m, r, w, b)

RECURSIVE WFlush(_, _, _)
\* gzipWriter.Flush: an error of t.gw.Flush() is logged
gzipWriterFlush(m, r, w) ==
    WFlush(IF m.wrs[r][w].gw # 0
             THEN LogCall(gzFlush(m, m.wrs[r][w].gw), r, "flush", "gz", m.wrs[r][w].gw)
             ELSE m,
           r, m.wrs[r][w].inner)

\* bufWriter.Flush: an error of t.b.Flush() is logged
bufWriterFlush(m, r, w) ==
    WFlush(LogCall(bufioFlush(m, m.wrs[r][w].b), r, "flush", "bf", m.wrs[r][w].b),
           r, m.wrs[r][w].inner)

\* Flush on the ResponseWriter numbered w of request r
WFlush(m, r, w) ==
    CASE m.wrs[r][w].kind = "rw" -> rwFlush(m, r)
      [] m.wrs[r][w].kind = "gz" -> gzipWriterFlush(m, r, w)
      [] m.wrs[r][w].kind = "buf" -> bufWriterFlush(m, r, w)

\* mutant: a compressor whose Close failed is not put back
gzipWriterPut_KeepsOnError(m, r, w, gw) ==
    IF m.err THEN m
    ELSE Returns(poolPut([m EXCEPT !.wrs[r][w].held = FALSE], r, "gz", gw), 0, m.err)

\* t.s.pool.Put(t.gw); return err
gzipWriterPut(m, r, w, gw) ==
    Returns(poolPut([m EXCEPT !.wrs[r][w].held = FALSE], r, "gz", gw), 0, m.err)

\* gzipWriter.Close: if t.gw != nil { err = t.gw.Close(); t.s.pool.Put(t.gw) }
gzipWriterClose(m, r, w) ==
    IF m.wrs[r][w].gw # 0
      THEN gzipWriterPut(LogCall(gzClose(m, m.wrs[r][w].gw), r, "close", "gz", m.wrs[r][w].gw),
                         r, w, m.wrs[r][w].gw)
      ELSE Returns(m, 0, FALSE)

\* t.s.pool.Put(t.b); return err
bufWriterPut(m, r, w, id) ==
    Returns(poolPut([m EXCEPT !.wrs[r][w].held = FALSE], r, "bf", id), 0, m.err)

\* bufWriter.Close: err = t.b.Flush(); t.s.pool.Put(t.b)
bufWriterClose(m, r, w) ==
    bufWriterPut(LogCall(bufioFlush(m, m.wrs[r][w].b), r, "close", "bf", m.wrs[r][w].b),
                 r, w, m.wrs[r][w].b)

\* WriteHeader on any ResponseWriter of request r: the wrappers embed the
\* ResponseWriter they wrap, so the call reaches the responseWriter
WWriteHeader(m, r, c) == rwWriteHeader(m, r, c)

(* ------------------------------ call stacks ---------------------------- *)
\* A frame: fn is "ServeHTTP", "maker" or the kind of the stage whose
\* ServeHttpPipe it is, k the stage's position in Pipeline.s, w the
\* ResponseWriter it was given, wn the one it hands to Next, c a counter
\* (callbacks run by the admission stage, Next calls of an application stage).
Frame(fn, k, w) == [fn |-> fn, k |-> k, pc |-> "start", w |-> w, wn |-> w, c |-> 0]
Top(r) == stack[r][Len(stack[r])]
At(r, fn, pc) ==
    /\ stack[r] # <<>> /\ ~panicking[r]
    /\ Top(r).fn = fn /\ Top(r).pc = pc
WithTop(r, f) == [stack EXCEPT ![r] = [@ EXCEPT ![Len(@)] = f]]
Popped(r) == [stack EXCEPT ![r] = SubSeq(@, 1, Len(@) - 1)]
\* the frame returns to its caller
ReturnsFrom(r) == Log(Cur, r, <<"out", Top(r).k>>)

(* ----------------------------- Pipeline.Next --------------------------- *)
\* mutant: at the end of the stages the last one is invoked again
PipelineNext_Wraps(r) ==
    /\ stack[r] # <<>> /\ ~panicking[r] /\ Top(r).pc = "callNext"
    /\ IF ps[r] = <<>>
         THEN /\ stack' = WithTop(r, [Top(r) EXCEPT !.pc = "back"])
              /\ UNCHANGED <<pi, evG>>
         ELSE LET k == IF pi[r] >= Len(ps[r]) THEN Len(ps[r]) ELSE pi[r] + 1
              IN  /\ pi' = [pi EXCEPT ![r] = k]
                  /\ stack' = [stack EXCEPT ![r] =
                                 Append([@ EXCEPT ![Len(@)].pc = "back"],
                                        Frame(ps[r][k], k, Top(r).wn))]
                  /\ evG' = [evG EXCEPT ![r] = Append(@, <<"in", k>>)]
    /\ UNCHANGED <<cfgv, ps, wrs, rws, hdr, raw, gzw, gzIdle, bfw, bfIdle, reqv>>
    /\ UNCHANGED <<listenerv, rwv, extv>>

\* mutant: the stage is started and Next returns without waiting for it
\* (the stage runs once its caller has returned)
PipelineNext_Async(r) ==
    /\ stack[r] # <<>> /\ ~panicking[r] /\ Top(r).pc = "callNext"
    /\ IF pi[r] >= Len(ps[r])
         THEN /\ stack' = WithTop(r, [Top(r) EXCEPT !.pc = "back"])
              /\ UNCHANGED <<pi, evG>>
         ELSE /\ pi' = [pi EXCEPT ![r] = @ + 1]
              /\ stack' = [stack EXCEPT ![r] =
                             SubSeq(@, 1, Len(@) - 1)
                               \o <<Frame(ps[r][pi[r] + 1], pi[r] + 1, Top(r).wn),
                                    [Top(r) EXCEPT !.pc = "back"]>>]
              /\ evG' = [evG EXCEPT ![r] = Append(@, <<"in", pi[r] + 1>>)]
    /\ UNCHANGED <<cfgv, ps, wrs, rws, hdr, raw, gzw, gzIdle, bfw, bfIdle, reqv>>
    /\ UNCHANGED <<listenerv, rwv, extv>>

\* mutant: the Pipelines of all requests advance one cursor
PipelineNext_SharedCursor(r) ==
    /\ stack[r] # <<>> /\ ~panicking[r] /\ Top(r).pc = "callNext"
    /\ IF pi[r] >= Len(ps[r])
         THEN /\ stack' = WithTop(r, [Top(r) EXCEPT !.pc = "back"])
              /\ UNCHANGED <<pi, evG>>
         ELSE /\ pi' = [u \in DOMAIN pi |-> pi[r] + 1]
              /\ stack' = [stack EXCEPT ![r] =
                             Append([@ EXCEPT ![Len(@)].pc = "back"],
                                    Frame(ps[r][pi[r] + 1], pi[r] + 1, Top(r).wn))]
              /\ evG' = [evG EXCEPT ![r] = Append(@, <<"in", pi[r] + 1>>)]
    /\ UNCHANGED <<cfgv, ps, wrs, rws, hdr, raw, gzw, gzIdle, bfw, bfIdle, reqv>>
    /\ UNCHANGED <<listenerv, rwv, extv>>

\* if p.i >= len(p.s) { return }; x := p.s[p.i]; p.i++; x.ServeHttpPipe(w, r, p)
PipelineNext(r) ==
    /\ stack[r] # <<>> /\ ~panicking[r] /\ Top(r).pc = "callNext"
    /\ IF pi[r] >= Len(ps[r])
         THEN /\ stack' = WithTop(r, [Top(r) EXCEPT !.pc = "back"])
              /\ UNCHANGED <<pi, evG>>
         ELSE /\ pi' = [pi EXCEPT ![r] = @ + 1]
              /\ stack' = [stack EXCEPT ![r] =
                             Append([@ EXCEPT ![Len(@)].pc = "back"],
                                    Frame(ps[r][pi[r] + 1], pi[r] + 1, Top(r).wn))]
              /\ evG' = [evG EXCEPT ![r] = Append(@, <<"in", pi[r] + 1>>)]
    /\ UNCHANGED <<cfgv, ps, wrs, rws, hdr, raw, gzw, gzIdle, bfw, bfIdle, reqv>>
    /\ UNCHANGED <<listenerv, rwv, extv>>

(* ------------------------- a Pipeline and its maker -------------------- *)
\* the maker of the Pipeline calls p.Next(w, r)
MakerCallsNext(r) ==
    /\ outcome[r] = "chain" /\ stack[r] = <<>>
    /\ outsideG[r] < MaxOutside
    /\ outsideG' = [outsideG EXCEPT ![r] = @ + 1]
    /\ stack' = [stack EXCEPT ![r] = <<[Frame("maker", 0, 1) EXCEPT !.pc = "callNext"]>>]
    /\ UNCHANGED <<cfgv, ps, pi, wrv, broken, aenc, panicking, outcome, hopsG, hwG>>
    /\ UNCHANGED <<listenerv, rwv, extv>>

\* Next has returned to the maker
MakerResumes(r) ==
    /\ At(r, "maker", "back")
    /\ stack' = Popped(r)
    /\ UNCHANGED <<cfgv, ps, pi, wrv, reqv>>
    /\ UNCHANGED <<listenerv, rwv, extv>>

\* an application stage does its work and calls f.Next(w, r)
AppForward(r) ==
    /\ At(r, "app", "start") \/ At(r, "app", "back")
    /\ Top(r).c < MaxForward
    /\ stack' = WithTop(r, [Top(r) EXCEPT !.pc = "callNext", !.c = @ + 1])
    /\ evG' = [evG EXCEPT ![r] = Append(@, <<"forward", Top(r).k>>)]
    /\ UNCHANGED <<cfgv, ps, pi, wrs, rws, hdr, raw, gzw, gzIdle, bfw, bfIdle, reqv>>
    /\ UNCHANGED <<listenerv, rwv, extv>>

\* an application stage finishes its work and returns
AppReturn(r) ==
    /\ At(r, "app", "start") \/ At(r, "app", "back")
    /\ stack' = Popped(r)
    /\ Becomes(ReturnsFrom(r))
    /\ UNCHANGED <<cfgv, ps, pi, reqv>>
    /\ UNCHANGED <<listenerv, rwv, extv>>

(* ------------------------- HTTPServer.ServeHTTP ------------------------ *)
\* ps := [s, s.Pipes..., FlusherPipe{}]; w2 := AsResponseWriter(w);
\* NewPipeline(ps...).Next(w2, r)
ServeHTTP(r) ==
    /\ outcome[r] = "idle"
    /\ \A u \in Reqs : u < r => outcome[u] # "idle"
    /\ outcome' = [outcome EXCEPT ![r] = "serving"]
    /\ \E ae \in AcceptEncodings : aenc' = [aenc EXCEPT ![r] = ae]
    /\ ps' = [ps EXCEPT ![r] = (<<"admission">> \o pipes) \o <<"flusher">>]
    /\ pi' = [pi EXCEPT ![r] = 0]
    /\ wrs' = [wrs EXCEPT ![r] = <<[kind |-> "rw", inner |-> 0, started |-> FALSE,
                                    gw |-> 0, b |-> 0, held |-> FALSE, in |-> <<>>]>>]
    /\ stack' = [stack EXCEPT ![r] = <<[Frame("ServeHTTP", 0, 1) EXCEPT !.pc = "callNext"]>>]
    /\ UNCHANGED <<cfgv, rws, hdr, raw, gzw, gzIdle, bfw, bfIdle, evG,
                   broken, panicking, hopsG, hwG, outsideG>>
    /\ UNCHANGED <<listenerv, rwv, extv>>

\* w2.Flush(); ServeHTTP returns
ServeHTTPFlush(r) ==
    /\ At(r, "ServeHTTP", "back")
    /\ stack' = Popped(r)
    /\ outcome' = [outcome EXCEPT ![r] = "returned"]
    /\ Becomes(WFlush(Cur, r, Top(r).w))
    /\ UNCHANGED <<cfgv, ps, pi, broken, aenc, panicking, hopsG, hwG, outsideG>>
    /\ UNCHANGED <<listenerv, rwv, extv>>

\* a panic leaves the ServeHttpPipe of a stage that defers nothing
Unwind(r) ==
    /\ stack[r] # <<>> /\ panicking[r]
    /\ Top(r).fn \notin {"ServeHTTP", "admission"}
    /\ stack' = Popped(r)
    /\ evG' = [evG EXCEPT ![r] = Append(@, <<"unwound", Top(r).k>>)]
    /\ UNCHANGED <<cfgv, ps, pi, wrs, rws, hdr, raw, gzw, gzIdle, bfw, bfIdle, reqv>>
    /\ UNCHANGED <<listenerv, rwv, extv>>

\* mutant: handlePanic recovers whatever the flags are
HandlePanic_AlwaysRecovers(r) ==
    /\ stack[r] # <<>> /\ panicking[r]
    /\ Top(r).fn = "ServeHTTP"
    /\ stack' = Popped(r)
    /\ panicking' = [panicking EXCEPT ![r] = FALSE]
    /\ outcome' = [outcome EXCEPT ![r] = "returned"]
    /\ UNCHANGED <<cfgv, ps, pi, wrv, broken, aenc, hopsG, hwG, outsideG>>
    /\ UNCHANGED <<listenerv, rwv, extv>>

\* defer s.handlePanic(): if s.panicFlags&OnPanicRecover == 0 { return };
\* recover()
HandlePanic(r) ==
    /\ stack[r] # <<>> /\ panicking[r]
    /\ Top(r).fn = "ServeHTTP"
    /\ stack' = Popped(r)
    /\ IF OnPanicRecover \in panicFlags
         THEN /\ panicking' = [panicking EXCEPT ![r] = FALSE]
              /\ outcome' = [outcome EXCEPT ![r] = "returned"]
         ELSE /\ outcome' = [outcome EXCEPT ![r] = "panicked"]
              /\ UNCHANGED panicking
    /\ UNCHANGED <<cfgv, ps, pi, wrv, broken, aenc, hopsG, hwG, outsideG>>
    /\ UNCHANGED <<listenerv, rwv, extv>>

(* ----------------------- HTTPServer.ServeHttpPipe ---------------------- *)
\* the admission stage is inside s.Listener.Run and has run c of the
\* callbacks that Run has invoked
InRun(r) ==
    /\ stack[r] # <<>> /\ Top(r).fn = "admission" /\ Top(r).pc = "start"
NextCallback(r) ==
    IF InRun(r) /\ Top(r).c < Len(calls[r]) THEN calls[r][Top(r).c + 1] ELSE "none"

\* mutant: onClosed sets the header and leaves the status alone
OnClosed_NoStatus(r) ==
    /\ NextCallback(r) = "onClosed"
    /\ stack' = WithTop(r, [Top(r) EXCEPT !.c = @ + 1])
    /\ hdr' = [hdr EXCEPT ![r].conn = "close"]
    /\ UNCHANGED <<cfgv, ps, pi, wrs, rws, raw, gzw, gzIdle, bfw, bfIdle, evG, reqv>>
    /\ UNCHANGED <<listenerv, rwv, extv>>

\* onClosed: w.Header().Set("Connection", "close");
\*           w.WriteHeader(http.StatusServiceUnavailable)
OnClosed(r) ==
    /\ NextCallback(r) = "onClosed"
    /\ stack' = WithTop(r, [Top(r) EXCEPT !.c = @ + 1])
    /\ Becomes(WWriteHeader([Cur EXCEPT !.hdr[r].conn = "close"], r,
                            StatusServiceUnavailable))
    /\ UNCHANGED <<cfgv, ps, pi, reqv>>
    /\ UNCHANGED <<listenerv, rwv, extv>>

\* mutant: onPaused leaves the header map alone
OnPaused_NoHeader(r) ==
    /\ NextCallback(r) = "onPaused"
    /\ stack' = WithTop(r, [Top(r) EXCEPT !.c = @ + 1])
    /\ UNCHANGED <<cfgv, ps, pi, wrv, reqv>>
    /\ UNCHANGED <<listenerv, rwv, extv>>

\* onPaused: w.Header().Set("Connection", "close")
OnPaused(r) ==
    /\ NextCallback(r) = "onPaused"
    /\ stack' = WithTop(r, [Top(r) EXCEPT !.c = @ + 1])
    /\ hdr' = [hdr EXCEPT ![r].conn = "close"]
    /\ UNCHANGED <<cfgv, ps, pi, wrs, rws, raw, gzw, gzIdle, bfw, bfIdle, evG, reqv>>
    /\ UNCHANGED <<listenerv, rwv, extv>>

\* onRun: f.Next(w, r)
OnRun(r) ==
    /\ NextCallback(r) = "onRun"
    /\ stack' = WithTop(r, [Top(r) EXCEPT !.c = @ + 1, !.pc = "callNext"])
    /\ UNCHANGED <<cfgv, ps, pi, wrv, reqv>>
    /\ UNCHANGED <<listenerv, rwv, extv>>

\* s.Listener.Run(onClosed, onPaused, onRun) is called
GateRunCheckClosed(r) == InRun(r) /\ RunCheckClosed(r)

\* onRun has returned or panicked: the deferred afterRun is next
GateRunBody(r) ==
    /\ stack[r] # <<>> /\ Top(r).fn = "admission" /\ Top(r).pc = "back"
    /\ RunBody(r)
    /\ fault'[r] = panicking[r]

\* Run has returned (or its panic goes on); log.Debug; ServeHttpPipe returns
AdmissionReturn(r) ==
    /\ stack[r] # <<>> /\ Top(r).fn = "admission"
    /\ rpc[r] = "done" /\ Top(r).c = Len(calls[r])
    /\ stack' = Popped(r)
    /\ Becomes(Log(Cur, r, <<IF panicking[r] THEN "unwound" ELSE "out", Top(r).k>>))
    /\ UNCHANGED <<cfgv, ps, pi, reqv>>
    /\ UNCHANGED <<listenerv, rwv, extv>>

(* ------------------------------- GzipPipe ------------------------------ *)
\* if !strings.Contains(r.Header.Get("Accept-Encoding"), "gzip") { f.Next(w, r); return }
\* w2 := &gzipWriter{ResponseWriter: w, s: s}; f.Next(w2, r)
GzipStart(r) ==
    /\ At(r, "gzip", "start")
    /\ IF ContainsGzip(aenc[r])
         THEN /\ wrs' = [wrs EXCEPT ![r] =
                           Append(@, [kind |-> "gz", inner |-> Top(r).w, started |-> FALSE,
                                      gw |-> 0, b |-> 0, held |-> FALSE, in |-> <<>>])]
              /\ stack' = WithTop(r, [Top(r) EXCEPT !.pc = "callNext",
                                                    !.wn = Len(wrs[r]) + 1])
         ELSE /\ stack' = WithTop(r, [Top(r) EXCEPT !.pc = "callNext"])
              /\ UNCHANGED wrs
    /\ UNCHANGED <<cfgv, ps, pi, rws, hdr, raw, gzw, gzIdle, bfw, bfIdle, evG, reqv>>
    /\ UNCHANGED <<listenerv, rwv, extv>>

\* the request does not take gzip: return
GzipReturn(r) ==
    /\ At(r, "gzip", "back") /\ Top(r).wn = Top(r).w
    /\ stack' = Popped(r)
    /\ Becomes(ReturnsFrom(r))
    /\ UNCHANGED <<cfgv, ps, pi, reqv>>
    /\ UNCHANGED <<listenerv, rwv, extv>>

\* w2.Flush()
GzipFlush(r) ==
    /\ At(r, "gzip", "back") /\ Top(r).wn # Top(r).w
    /\ stack' = WithTop(r, [Top(r) EXCEPT !.pc = "close"])
    /\ Becomes(WFlush(Cur, r, Top(r).wn))
    /\ UNCHANGED <<cfgv, ps, pi, reqv>>
    /\ UNCHANGED <<listenerv, rwv, extv>>

\* mutant: the stage returns without closing its gzipWriter
GzipClose_NoClose(r) ==
    /\ At(r, "gzip", "close")
    /\ stack' = Popped(r)
    /\ Becomes(Log(Cur, r, <<"out", Top(r).k>>))
    /\ UNCHANGED <<cfgv, ps, pi, reqv>>
    /\ UNCHANGED <<listenerv, rwv, extv>>

\* log.Error2(nil, w2.Close(), ...); return
GzipClose(r) ==
    /\ At(r, "gzip", "close")
    /\ stack' = Popped(r)
    /\ Becomes(Log(gzipWriterClose(Cur, r, Top(r).wn), r, <<"out", Top(r).k>>))
    /\ UNCHANGED <<cfgv, ps, pi, reqv>>
    /\ UNCHANGED <<listenerv, rwv, extv>>

(* ------------------------------ BufferPipe ----------------------------- *)
\* bw.Reset(w); w2 := &bufWriter{b: bw, s: s, ResponseWriter: w}
bufWriterBind(m, r, w) ==
    [m EXCEPT !.bfw[m.n] = bfFresh([r |-> r, w |-> w]),
              !.wrs[r] = Append(@, [kind |-> "buf", inner |-> w, started |-> FALSE,
                                    gw |-> 0, b |-> m.n, held |-> TRUE, in |-> <<>>])]

\* bw := pool.Must(s.pool.Get(0)); bw.Reset(w);
\* w2 := &bufWriter{b: bw, s: s, ResponseWriter: w}; f.Next(w2, r)
BufferStart(r) ==
    /\ At(r, "buffer", "start")
    /\ stack' = WithTop(r, [Top(r) EXCEPT !.pc = "callNext", !.wn = Len(wrs[r]) + 1])
    /\ Becomes(bufWriterBind(poolGet(Cur, r, "bf"), r, Top(r).w))
    /\ UNCHANGED <<cfgv, ps, pi, reqv>>
    /\ UNCHANGED <<listenerv, rwv, extv>>

\* w2.Flush()
BufferFlush(r) ==
    /\ At(r, "buffer", "back")
    /\ stack' = WithTop(r, [Top(r) EXCEPT !.pc = "close"])
    /\ Becomes(WFlush(Cur, r, Top(r).wn))
    /\ UNCHANGED <<cfgv, ps, pi, reqv>>
    /\ UNCHANGED <<listenerv, rwv, extv>>

\* log.Error2(nil, w2.Close(), ...); return
BufferClose(r) ==
    /\ At(r, "buffer", "close")
    /\ stack' = Popped(r)
    /\ Becomes(Log(bufWriterClose(Cur, r, Top(r).wn), r, <<"out", Top(r).k>>))
    /\ UNCHANGED <<cfgv, ps, pi, reqv>>
    /\ UNCHANGED <<listenerv, rwv, extv>>

(* ------------------------------ FlusherPipe ---------------------------- *)
\* f.Next(w, r)
FlusherStart(r) ==
    /\ At(r, "flusher", "start")
    /\ stack' = WithTop(r, [Top(r) EXCEPT !.pc = "callNext"])
    /\ UNCHANGED <<cfgv, ps, pi, wrv, reqv>>
    /\ UNCHANGED <<listenerv, rwv, extv>>

\* w.Flush(); return
FlusherFlush(r) ==
    /\ At(r, "flusher", "back")
    /\ stack' = Popped(r)
    /\ Becomes(Log(WFlush(Cur, r, Top(r).w), r, <<"out", Top(r).k>>))
    /\ UNCHANGED <<cfgv, ps, pi, reqv>>
    /\ UNCHANGED <<listenerv, rwv, extv>>

(* ---------------------------- HttpHandlerPipe -------------------------- *)
\* h.ServeHTTP(w, r): the application handler makes its calls on w
InHandler(r) == At(r, "handler", "start") /\ Len(hopsG[r]) < MaxHandlerOps
\* the handlers taken set the Content-Type before they write or flush, and
\* the status as their first call
NothingSent(r) == \A k \in DOMAIN hopsG[r] : hopsG[r][k] \notin {"Write", "Flush"}

\* w.Header().Set("Content-Type", ct)
HandlerSetContentType(r, ct) ==
    /\ InHandler(r) /\ NothingSent(r)
    /\ hopsG' = [hopsG EXCEPT ![r] = Append(@, "Content-Type")]
    /\ hdr' = [hdr EXCEPT ![r].ct = ct]
    /\ UNCHANGED <<cfgv, plv, wrs, rws, raw, gzw, gzIdle, bfw, bfIdle, evG,
                   broken, aenc, panicking, outcome, hwG, outsideG>>
    /\ UNCHANGED <<listenerv, rwv, extv>>

\* w.Header().Set("Content-Encoding", ce)
HandlerSetContentEncoding(r, ce) ==
    /\ InHandler(r)
    /\ hopsG' = [hopsG EXCEPT ![r] = Append(@, "Content-Encoding")]
    /\ hdr' = [hdr EXCEPT ![r].ce = ce]
    /\ UNCHANGED <<cfgv, plv, wrs, rws, raw, gzw, gzIdle, bfw, bfIdle, evG,
                   broken, aenc, panicking, outcome, hwG, outsideG>>
    /\ UNCHANGED <<listenerv, rwv, extv>>

\* w.WriteHeader(c)
HandlerWriteHeader(r, c) ==
    /\ InHandler(r) /\ hopsG[r] = <<>>
    /\ hopsG' = [hopsG EXCEPT ![r] = Append(@, "WriteHeader")]
    /\ Becomes(WWriteHeader(Cur, r, c))
    /\ UNCHANGED <<cfgv, plv, broken, aenc, panicking, outcome, hwG, outsideG>>
    /\ UNCHANGED <<listenerv, rwv, extv>>

\* w.Write(b)
HandlerWrite(r, b) ==
    /\ InHandler(r)
    /\ hopsG' = [hopsG EXCEPT ![r] = Append(@, "Write")]
    /\ hwG' = [hwG EXCEPT ![r] = @ \o b]
    /\ Becomes(WWrite(Cur, r, Top(r).w, b))
    /\ UNCHANGED <<cfgv, plv, broken, aenc, panicking, outcome, outsideG>>
    /\ UNCHANGED <<listenerv, rwv, extv>>

\* w.Flush()
HandlerFlush(r) ==
    /\ InHandler(r)
    /\ hopsG' = [hopsG EXCEPT ![r] = Append(@, "Flush")]
    /\ Becomes(WFlush(Cur, r, Top(r).w))
    /\ UNCHANGED <<cfgv, plv, broken, aenc, panicking, outcome, hwG, outsideG>>
    /\ UNCHANGED <<listenerv, rwv, extv>>

\* the handler panics
HandlerPanic(r) ==
    /\ InHandler(r)
    /\ hopsG' = [hopsG EXCEPT ![r] = Append(@, "panic")]
    /\ panicking' = [panicking EXCEPT ![r] = TRUE]
    /\ UNCHANGED <<cfgv, plv, wrv, broken, aenc, outcome, hwG, outsideG>>
    /\ UNCHANGED <<listenerv, rwv, extv>>

\* h.ServeHTTP returns; f.Next(w, r)
HandlerReturn(r) ==
    /\ At(r, "handler", "start")
    /\ stack' = WithTop(r, [Top(r) EXCEPT !.pc = "callNext"])
    /\ UNCHANGED <<cfgv, ps, pi, wrv, reqv>>
    /\ UNCHANGED <<listenerv, rwv, extv>>

\* ServeHttpPipe returns
HandlerPipeReturn(r) ==
    /\ At(r, "handler", "back")
    /\ stack' = Popped(r)
    /\ Becomes(ReturnsFrom(r))
    /\ UNCHANGED <<cfgv, ps, pi, reqv>>
    /\ UNCHANGED <<listenerv, rwv, extv>>

\* the client goes away before the handler makes its first call: from now
\* on the raw Writes of the request fail
ConnBreaks(r) ==
    /\ At(r, "handler", "start") /\ hopsG[r] = <<>> /\ ~broken[r]
    /\ broken' = [broken EXCEPT ![r] = TRUE]
    /\ UNCHANGED <<cfgv, plv, wrv, aenc, panicking, outcome, hopsG, hwG, outsideG>>
    /\ UNCHANGED <<listenerv, rwv, extv>>

(* ----------------------------- specifications -------------------------- *)
InitRequests(reqs, stages) ==
    /\ ps = [r \in reqs |-> stages]
    /\ pi = [r \in reqs |-> 0]
    /\ stack = [r \in reqs |-> <<>>]
    /\ wrs = [r \in reqs |-> <<>>]
    /\ rws = [r \in reqs |-> [code |-> 0, headerWritten |-> FALSE, numBytesW |-> 0]]
    /\ hdr = [r \in reqs |-> [ct |-> "", ce |-> "", conn |-> ""]]
    /\ raw = [r \in reqs |-> [status |-> 0, hdr |-> [ct |-> "", ce |-> "", conn |-> ""],
                              body |-> <<>>, flushes |-> 0]]
    /\ gzw = <<>> /\ gzIdle = <<>> /\ bfw = <<>> /\ bfIdle = <<>>
    /\ evG = [r \in reqs |-> <<>>]
    /\ broken = [r \in reqs |-> FALSE]
    /\ aenc = [r \in reqs |-> ""]
    /\ panicking = [r \in reqs |-> FALSE]
    /\ hopsG = [r \in reqs |-> <<>>]
    /\ hwG = [r \in reqs |-> <<>>]
    /\ outsideG = [r \in reqs |-> 0]

\* one request to an HTTPServer on a Listener with ceiling 1
PipeReqs == {1}
InitPipe ==
    /\ InitListener(PipeReqs, {1})
    /\ InitResponseWriter /\ wIsFlusher = TRUE
    /\ pipes \in PipeConfigs
    /\ panicFlags \in {{}, {OnPanicRecover}}
    /\ InitRequests(PipeReqs, <<>>)
    /\ InitNoWatcher /\ InitNoStore
    /\ outcome = [r \in PipeReqs |-> "idle"]

\* the steps of a request that are steps of Listener.Run; no request is in
\* flight when the gate is closed, so afterRun has no Close to signal
GateStep(r) ==
    \/ GateRunCheckClosed(r) \/ GateRunBody(r)
    \/ RunInc(r) \/ RunLoadHard(r) \/ RunLoadPaused(r) \/ RunLoadHi(r)
    \/ RunCasPause(r) \/ AfterDec(r) \/ AfterLoadLo(r) \/ AfterCasUnpause(r)
    \/ AfterSignalPaused(r) \/ AfterLoadClosed(r) \/ AfterSignalZero(r)

AdmissionStep(r) == OnClosed(r) \/ OnPaused(r) \/ OnRun(r) \/ AdmissionReturn(r)
GzipStep(r) == GzipStart(r) \/ GzipReturn(r) \/ GzipFlush(r) \/ GzipClose(r)
BufferStep(r) == BufferStart(r) \/ BufferFlush(r) \/ BufferClose(r)
FlusherStep(r) == FlusherStart(r) \/ FlusherFlush(r)
HandlerStep(r) ==
    \/ \E ct \in HandlerContentTypes : HandlerSetContentType(r, ct)
    \/ \E ce \in HandlerContentEncodings : HandlerSetContentEncoding(r, ce)
    \/ \E c \in HandlerCodes : HandlerWriteHeader(r, c)
    \/ \E b \in WriteInputs : HandlerWrite(r, b)
    \/ HandlerFlush(r)
    \/ HandlerPanic(r)
    \/ HandlerReturn(r)
    \/ HandlerPipeReturn(r)
ServeStep(r) ==
    \/ ServeHTTP(r) \/ PipelineNext(r) \/ ServeHTTPFlush(r)
    \/ Unwind(r) \/ HandlePanic(r)

\* Close is called, if at all, while no request is being served, and
\* HardPause, if at all, before the request arrives; a request takes no step
\* while one of these calls is on its way to its return
NoneServing == \A r \in Reqs : outcome[r] # "serving"
NoneArrived == \A r \in Reqs : outcome[r] = "idle"
Closing == \E c \in CloseThreads : cpc[c] \notin {"idle", "cl_wait", "done", "done_noop"}
Quiet == ~Closing /\ mpc = "idle"

NextPipe ==
    \/ \E r \in Reqs : Quiet /\ ServeStep(r)
    \/ \E r \in Reqs : Quiet /\ GateStep(r)
    \/ \E r \in Reqs : Quiet /\ AdmissionStep(r)
    \/ \E r \in Reqs : Quiet /\ GzipStep(r)
    \/ \E r \in Reqs : Quiet /\ BufferStep(r)
    \/ \E r \in Reqs : Quiet /\ FlusherStep(r)
    \/ \E r \in Reqs : Quiet /\ HandlerStep(r)
    \/ \E r \in Reqs : Quiet /\ ConnBreaks(r)
    \/ NoneServing /\ CloseCas(1)
    \/ CloseStep(1)
    \/ NoneArrived /\ hardPaused = 0 /\ HardPauseCheck
    \/ HardPauseStore

SpecPipe == InitPipe /\ [][NextPipe]_vars

\* a Pipeline of application stages, made with NewPipeline and driven by
\* its maker
InitChain ==
    /\ InitListener({}, {2})
    /\ InitResponseWriter /\ wIsFlusher = TRUE
    /\ pipes = <<>> /\ panicFlags = {}
    /\ \E s \in ChainConfigs : InitRequests(PipeReqs, s)
    /\ InitNoWatcher /\ InitNoStore
    /\ outcome = [r \in PipeReqs |-> "chain"]

NextChain ==
    \/ \E r \in Reqs : MakerCallsNext(r)
    \/ \E r \in Reqs : MakerResumes(r)
    \/ \E r \in Reqs : PipelineNext(r)
    \/ \E r \in Reqs : AppForward(r)
    \/ \E r \in Reqs : AppReturn(r)

SpecChain == InitChain /\ [][NextChain]_vars

\* two requests at a time to an HTTPServer with a GzipPipe and a BufferPipe,
\* which recovers panics; each handler makes at most one call, a Write of
\* more than a buffer holds or a panic
PoolReqs == {1, 2}
PoolWrites == {[k \in 1..(BufSize + 1) |-> "t"]}
InitPool ==
    /\ InitListener(PoolReqs, {2})
    /\ InitResponseWriter /\ wIsFlusher = TRUE
    /\ pipes \in {<<"gzip", "buffer", "handler">>, <<"buffer", "gzip", "handler">>}
    /\ panicFlags = {OnPanicRecover}
    /\ InitRequests(PoolReqs, <<>>)
    /\ InitNoWatcher /\ InitNoStore
    /\ outcome = [r \in PoolReqs |-> "idle"]

NextPool ==
    \/ \E r \in Reqs : ServeStep(r)
    \/ \E r \in Reqs : GateStep(r)
    \/ \E r \in Reqs : AdmissionStep(r)
    \/ \E r \in Reqs : GzipStep(r)
    \/ \E r \in Reqs : BufferStep(r)
    \/ \E r \in Reqs : FlusherStep(r)
    \/ \E r \in Reqs : \E b \in PoolWrites : hopsG[r] = <<>> /\ HandlerWrite(r, b)
    \/ \E r \in Reqs : hopsG[r] = <<>> /\ HandlerPanic(r)
    \/ \E r \in Reqs : HandlerReturn(r)
    \/ \E r \in Reqs : HandlerPipeReturn(r)

SpecPool == InitPool /\ [][NextPool]_vars

(* ------------------------- properties of Part 3 ------------------------ *)
\* the stages invoked for request r, the stages that returned, and the Next
\* calls that stage k made, each in order of occurrence
Invoked(r) == SelectSeq(evG[r], LAMBDA e : e[1] = "in")
Finished(r) == SelectSeq(evG[r], LAMBDA e : e[1] = "out")
Forwards(r, k) == SelectSeq(evG[r], LAMBDA e : e[1] = "forward" /\ e[2] = k)

\* C23: over any sequence of Next calls, from stages or from the maker, the
\* cursor never decreases and never exceeds the number of stages; the stages
\* invoked so far are exactly stages 1..cursor, each once and in order; a Next
\* call made with the cursor at the end invokes nothing, moves nothing and
\* returns to its caller without a fault.
C23_CursorBoundedStagesOnceInOrder ==
    /\ [](\A r \in Reqs :
            /\ pi[r] \in 0..Len(ps[r])
            /\ Invoked(r) = [k \in 1..pi[r] |-> <<"in", k>>])
    /\ [][\A r \in Reqs :
            /\ pi'[r] >= pi[r]
            /\ (PipelineNext(r) /\ pi[r] >= Len(ps[r]))
                 => /\ pi' = pi /\ evG' = evG
                    /\ Len(stack'[r]) = Len(stack[r])
                    /\ ~panicking'[r]]_vars
\* the maker called Next again after the last stage had been invoked, and a
\* stage called Next twice
C23_NextCalledPastTheEnd ==
    \E r \in Reqs :
        /\ outcome[r] = "chain" /\ stack[r] = <<>>
        /\ Len(ps[r]) = MaxStages /\ pi[r] = MaxStages
        /\ outsideG[r] = MaxOutside
        /\ Len(Forwards(r, MaxStages)) = MaxForward

\* what happens when the maker calls Next once and each of n stages
\* forwards once: in 1, forward 1, ..., in n, forward n, out n, ..., out 1
NestedTrace(n) ==
    [j \in 1..(3 * n) |->
        IF j <= 2 * n
          THEN IF j % 2 = 1 THEN <<"in", (j + 1) \div 2>> ELSE <<"forward", j \div 2>>
          ELSE <<"out", 3 * n + 1 - j>>]
EachForwardedOnce(r) ==
    /\ stack[r] = <<>> /\ outsideG[r] >= 1
    /\ \A k \in 1..Len(ps[r]) : Len(Forwards(r, k)) = 1

\* C24: when every stage forwards exactly once, stage i is entered before
\* stage i+1, and stage i returns only after every later stage has returned:
\* the returns come in reverse stage order, after all the entries.
C24_StagesNestSynchronously ==
    \A r \in Reqs :
        (outcome[r] = "chain" /\ EachForwardedOnce(r))
            => evG[r] = NestedTrace(Len(ps[r]))
\* three stages, each forwarded once, all returned
C24_ThreeStagesNested ==
    \E r \in Reqs :
        /\ outcome[r] = "chain" /\ EachForwardedOnce(r)
        /\ Len(ps[r]) = MaxStages
        /\ Finished(r) = [j \in 1..MaxStages |-> <<"out", MaxStages + 1 - j>>]

\* the gzipWriters made for request r
GzipWriters(r) == {w \in DOMAIN wrs[r] : wrs[r][w].kind = "gz"}
PlainBytes == {"t", "z"}
\* whether the gzipWriter numbered w, about to see its first Write, of the
\* bytes first, compresses
Compresses(r, first) ==
    /\ hdr[r].ce = ""
    /\ GzipTypesMatch(IF hdr[r].ct # "" THEN hdr[r].ct ELSE DetectContentType(first))

\* C25: a gzipWriter exists only for a request whose Accept-Encoding names
\* gzip. At its first Write it takes a compressor if and only if no
\* Content-Encoding is set and the Content-Type (the header, or else the
\* type sniffed from the bytes of that Write) matches gzipTypes, and then
\* sets Content-Encoding: gzip; from then on the choice stands whatever the
\* headers become. With a compressor every byte written goes into it and
\* only its output reaches the wrapped writer; without one the wrapped
\* writer gets the bytes as written, and no compressor is taken from the pool.
C25_GzipDecidedOnceAtFirstWrite ==
    /\ [](\A r \in Reqs :
            /\ \A w \in GzipWriters(r) :
                 LET t == wrs[r][w] IN
                 /\ ContainsGzip(aenc[r])
                 /\ ~t.started => (t.gw = 0 /\ t.in = <<>>)
                 /\ (t.started /\ t.gw = 0) => wrs[r][t.inner].in = t.in
                 /\ t.gw # 0 =>
                      /\ t.started
                      /\ \A k \in DOMAIN wrs[r][t.inner].in :
                            wrs[r][t.inner].in[k] \notin PlainBytes
                 /\ (t.gw # 0 /\ t.held /\ ~gzw[t.gw].err) => gzw[t.gw].size = Len(t.in)
            /\ (\A w \in GzipWriters(r) : wrs[r][w].gw = 0)
                 => \A k \in DOMAIN evG[r] : evG[r][k][1] # "get" \/ evG[r][k][2] # "gz")
    /\ [][\A r \in Reqs : \A w \in GzipWriters(r) :
            /\ (~wrs[r][w].started /\ wrs'[r][w].started)
                 => IF Compresses(r, wrs'[r][w].in)
                      THEN wrs'[r][w].gw # 0 /\ hdr'[r].ce = "gzip"
                      ELSE wrs'[r][w].gw = 0 /\ hdr'[r].ce = hdr[r].ce
            /\ wrs[r][w].started
                 => wrs'[r][w].started /\ wrs'[r][w].gw = wrs[r][w].gw]_vars
\* the type was sniffed from the first Write and the compressor taken; the
\* handler then set another Content-Encoding and wrote again, through the
\* compressor
C25_RouteKeptAfterHeaderChange ==
    \E r \in Reqs : \E w \in GzipWriters(r) :
        /\ hopsG[r] = <<"Write", "Content-Encoding", "Write">>
        /\ wrs[r][w].gw # 0 /\ wrs[r][w].held
        /\ hdr[r].ct = "text/plain; charset=utf-8" /\ hdr[r].ce = "br"
        /\ Len(wrs[r][w].in) > BufSize + 1
        /\ gzw[wrs[r][w].gw].size = Len(wrs[r][w].in)

\* event e is the return of stage k; event e is the call tag on the pooled
\* writer id of kind kind
IsOut(e, k) == e[1] = "out" /\ e[2] = k
IsCall(e, tag, kind, id) == e[1] = tag /\ e[2] = kind /\ e[3] = id
\* the stage of kind kind of request r has returned
StageReturned(r, kind) ==
    \E k \in DOMAIN ps[r] : ps[r][k] = kind /\ \E j \in DOMAIN evG[r] : IsOut(evG[r][j], k)
\* the request passes a GzipPipe and takes gzip, and its connection holds;
\* the handler set Content-Type: text/html and, apart from that, only wrote
HtmlWrites(r) ==
    /\ \E k \in DOMAIN ps[r] : ps[r][k] = "gzip"
    /\ ContainsGzip(aenc[r]) /\ ~broken[r]
    /\ Len(hopsG[r]) >= 1 /\ hopsG[r][1] = "Content-Type" /\ hdr[r].ct = "text/html"
    /\ \A k \in 2..Len(hopsG[r]) : hopsG[r][k] = "Write"
\* the committed response says gzip, the response is committed when
\* ServeHTTP has returned, and once the gzip stage has returned what its
\* gzipWriter handed on is a gzip stream of what the handler wrote
GzipRoundTrip(r) ==
    /\ raw[r].status # 0 => raw[r].hdr.ce = "gzip"
    /\ outcome[r] = "returned" => raw[r].status # 0
    /\ StageReturned(r, "gzip")
         => \A w \in GzipWriters(r) : Gunzip(wrs[r][wrs[r][w].inner].in) = hwG[r]

IdleAreReset ==
    /\ \A j \in DOMAIN gzIdle : gzw[gzIdle[j]] = gzFresh(Discard)
    /\ \A j \in DOMAIN bfIdle : bfw[bfIdle[j]] = bfFresh(Discard)
\* the events of request r that end with the return o of its stage k, which
\* held the pooled writer id: after the return of stage k+1, a flush of id,
\* then, one after the other, its close, its put, its reset and the return
EndsInOrder(r, k, o, kind, id) ==
    /\ o > 4
    /\ IsCall(evG[r][o - 1], "reset", kind, id)
    /\ IsCall(evG[r][o - 2], "put", kind, id)
    /\ IsCall(evG[r][o - 3], "close", kind, id)
    /\ \E f \in 1..(o - 4) :
          /\ IsCall(evG[r][f], "flush", kind, id)
          /\ \E q \in 1..(f - 1) : IsOut(evG[r][q], k + 1)

\* C27: when the GzipPipe of a request has returned and its gzipWriter had
\* taken a compressor, the return of the rest of the chain was followed by
\* the compressor's Flush, then its Close, then its Put, whose reset to
\* ioutil.Discard comes before the writer is idle in the pool; this is so
\* when Flush or Close failed too, and no failure makes the request panic.
C27_FlushCloseReleaseInOrder ==
    /\ IdleAreReset
    /\ \A r \in Reqs :
          /\ panicking[r] => \E j \in DOMAIN hopsG[r] : hopsG[r][j] = "panic"
          /\ \A w \in GzipWriters(r) : \A k \in DOMAIN ps[r] : \A o \in DOMAIN evG[r] :
                (wrs[r][w].gw # 0 /\ ps[r][k] = "gzip" /\ IsOut(evG[r][o], k))
                    => /\ EndsInOrder(r, k, o, "gz", wrs[r][w].gw)
                       /\ ~wrs[r][w].held
\* the connection was gone: Flush and Close of the compressor failed, the
\* compressor is idle in the pool and ServeHTTP has returned
C27_ReleasedAfterFailedClose ==
    \E r \in Reqs : \E w \in GzipWriters(r) :
        /\ wrs[r][w].gw # 0 /\ StageReturned(r, "gzip") /\ outcome[r] = "returned"
        /\ \E j \in DOMAIN evG[r] : IsCall(evG[r][j], "flush", "gz", wrs[r][w].gw) /\ evG[r][j][4]
        /\ \E j \in DOMAIN evG[r] : IsCall(evG[r][j], "close", "gz", wrs[r][w].gw) /\ evG[r][j][4]
        /\ gzIdle = <<wrs[r][w].gw>>

\* the bufWriters made for request r
BufWriters(r) == {w \in DOMAIN wrs[r] : wrs[r][w].kind = "buf"}

C30_CommittedWhenServeHTTPReturns ==
    \A r \in Reqs :
        outcome[r] = "returned" => (rws[r].headerWritten /\ raw[r].status # 0)

\* the pooled writers that the stages of the requests own: kind, number, and
\* the ResponseWriter that owns it
OwnedBy(r) ==
    {<<wrs[r][w].kind, IF wrs[r][w].kind = "gz" THEN wrs[r][w].gw ELSE wrs[r][w].b, r, w>> :
        w \in {v \in DOMAIN wrs[r] : wrs[r][v].held}}
Owned == UNION {OwnedBy(r) : r \in Reqs}
IdleSet(kind) ==
    IF kind = "gz" THEN {gzIdle[j] : j \in DOMAIN gzIdle} ELSE {bfIdle[j] : j \in DOMAIN bfIdle}

\* C29: with requests running at the same time, a pooled compressor or
\* buffer that a gzipWriter or bufWriter has taken and not yet put back is
\* owned by that one alone, is not idle in its pool (so no Get can hand it
\* out), and writes to the ResponseWriter that its owner wraps.
C29_PooledWriterHasOneOwner ==
    /\ \A x \in Owned : \A y \in Owned :
          (x[1] = y[1] /\ x[2] = y[2]) => (x[3] = y[3] /\ x[4] = y[4])
    /\ \A x \in Owned :
          /\ x[2] \notin IdleSet(x[1])
          /\ IF x[1] = "gz" THEN gzw[x[2]].tgt = [r |-> x[3], w |-> wrs[x[3]][x[4]].inner]
                            ELSE bfw[x[2]].tgt = [r |-> x[3], w |-> wrs[x[3]][x[4]].inner]
\* the first request has put its compressor and its buffer back, the
\* second has taken the same two, and both requests were in flight together
C29_WritersReusedByNextRequest ==
    /\ Len(gzw) = 1 /\ Len(bfw) = 2
    /\ <<"gz", 1, 2, 2>> \in Owned \/ <<"gz", 1, 2, 3>> \in Owned
    /\ \E w \in DOMAIN wrs[1] : wrs[1][w].kind = "gz" /\ wrs[1][w].gw = 1 /\ ~wrs[1][w].held
    /\ outcome[1] = "serving" /\ outcome[2] = "serving"

(* --------------------- requests that meet at the gate ------------------ *)
\* two requests at a time to an HTTPServer on a Listener with ceiling 2,
\* with or without OnPanicRecover; HardPause is called, if at all, before
\* the first request arrives; each handler makes at most one call, a Write
\* or a panic
AdmitConfigs == {<<"buffer", "handler">>}
InitAdmit ==
    /\ InitListener(PoolReqs, {2})
    /\ InitResponseWriter /\ wIsFlusher = TRUE
    /\ pipes \in AdmitConfigs
    /\ panicFlags \in {{}, {OnPanicRecover}}
    /\ InitRequests(PoolReqs, <<>>)
    /\ InitNoWatcher /\ InitNoStore
    /\ outcome = [r \in PoolReqs |-> "idle"]

NextAdmit ==
    \/ \E r \in Reqs : mpc = "idle" /\ ServeStep(r)
    \/ \E r \in Reqs : mpc = "idle" /\ GateStep(r)
    \/ \E r \in Reqs : OnPaused(r) \/ OnRun(r) \/ AdmissionReturn(r)
    \/ \E r \in Reqs : BufferStep(r)
    \/ \E r \in Reqs : FlusherStep(r)
    \/ \E r \in Reqs : \E b \in PoolWrites : hopsG[r] = <<>> /\ HandlerWrite(r, b)
    \/ \E r \in Reqs : hopsG[r] = <<>> /\ HandlerPanic(r)
    \/ \E r \in Reqs : HandlerReturn(r)
    \/ \E r \in Reqs : HandlerPipeReturn(r)
    \/ NoneArrived /\ hardPaused = 0 /\ HardPauseCheck
    \/ HardPauseStore

SpecAdmit == InitAdmit /\ [][NextAdmit]_vars

(* ------------------- the dispatcher and the closed gate ---------------- *)
\* the stages of request r that were invoked, by position in Pipeline.s
InvokedStages(r) == {evG[r][k][2] : k \in {j \in DOMAIN evG[r] : evG[r][j][1] = "in"}}

\* C31: a request whose admission finds the gate closed never counts as in
\* flight and reaches no stage behind the admission stage (no application
\* stage, no FlusherPipe); once onClosed has run the response header map has
\* Connection: close, and when ServeHTTP has returned the raw
\* http.ResponseWriter has been given status 503 together with that header.
C31_ClosedGateAnswers503 ==
    \A r \in Reqs :
        obs[r] = "closed" =>
            /\ numConn = 0 /\ rn[r] = 0
            /\ InvokedStages(r) \subseteq {1}
            /\ outcome[r] \in {"serving", "returned"}
            /\ calls[r] = <<"onClosed">>
            /\ (~InRun(r) \/ Top(r).c = 1) => hdr[r].conn = "close"
            /\ outcome[r] = "returned" =>
                  /\ raw[r].status = StatusServiceUnavailable
                  /\ raw[r].hdr.conn = "close"
                  /\ raw[r].body = <<>>
\* Close has returned, a request to a server with application stages came
\* after it and ServeHTTP has returned with 503 committed
C31_RefusedAfterClose ==
    \E r \in Reqs :
        /\ obs[r] = "closed" /\ outcome[r] = "returned" /\ closed = 1
        /\ Len(pipes) = 3
        /\ raw[r].status = StatusServiceUnavailable /\ raw[r].hdr.conn = "close"
        /\ InvokedStages(r) = {1}

(* --------------------------- the paused gate --------------------------- *)
\* the stages of request r were invoked in the order of Pipeline.s
InOrder(r) ==
    \A j \in DOMAIN evG[r] : \A k \in DOMAIN evG[r] :
        (j < k /\ evG[r][j][1] = "in" /\ evG[r][k][1] = "in") => evG[r][j][2] < evG[r][k][2]
\* the handler of request r did not panic
Calm(r) == \A k \in DOMAIN hopsG[r] : hopsG[r][k] # "panic"

\* C32: a request whose admission finds the gate hard-paused or soft-paused
\* (and not closed) has onPaused and then onRun called: the header map has
\* Connection: close before the second stage is invoked and when the response
\* is committed; a request that finds neither flag set never has the header.
\* Paused or not, the stages behind the admission stage are invoked in their
\* order, and all of them once ServeHTTP has returned without a panic.
C32_PausedGateStillForwards ==
    \A r \in Reqs :
        /\ obs[r] \in {"hard", "soft"} =>
              /\ calls[r] = <<"onPaused", "onRun">>
              /\ 2 \in InvokedStages(r) => hdr[r].conn = "close"
              /\ raw[r].status # 0 => raw[r].hdr.conn = "close"
        /\ obs[r] = "clear" =>
              /\ hdr[r].conn = "" /\ raw[r].hdr.conn = ""
              /\ \A k \in DOMAIN calls[r] : calls[r][k] = "onRun"
        /\ InOrder(r)
        /\ (obs[r] \in {"hard", "soft", "clear"} /\ outcome[r] = "returned" /\ Calm(r))
              => InvokedStages(r) = DOMAIN ps[r]
\* one request met the soft pause that the other engaged, both were served
\* by every stage, and the first carries Connection: close, the other not
C32_SoftPausedServedInFull ==
    \E r \in Reqs : \E u \in Reqs :
        /\ obs[r] = "soft" /\ obs[u] = "clear"
        /\ outcome[r] = "returned" /\ outcome[u] = "returned"
        /\ InvokedStages(r) = DOMAIN ps[r] /\ InvokedStages(u) = DOMAIN ps[u]
        /\ Len(pipes) = 2
        /\ raw[r].hdr.conn = "close" /\ raw[u].hdr.conn = ""
        /\ raw[r].body = raw[u].body /\ raw[r].body # <<>>

(* ------------------------- one Pipeline per request -------------------- *)
\* the responseWriters made for request r
ResponseWriters(r) == {w \in DOMAIN wrs[r] : wrs[r][w].kind = "rw"}
\* what ServeHTTP made for request r: one responseWriter around the raw
\* http.ResponseWriter, and a Pipeline of the admission stage, s.Pipes and
\* FlusherPipe, whose cursor counts the stages invoked for r alone
OwnPipeline(r) ==
    /\ ps[r] = (<<"admission">> \o pipes) \o <<"flusher">>
    /\ ResponseWriters(r) = {1}
    /\ pi[r] = Cardinality(InvokedStages(r))
    /\ InvokedStages(r) = 1..pi[r]
    /\ InOrder(r)
    /\ (outcome[r] = "returned" /\ Calm(r)) => pi[r] = Len(ps[r])

\* C33: every request that ServeHTTP has taken has exactly one
\* responseWriter around its raw http.ResponseWriter and its own Pipeline,
\* made of the admission stage, then HTTPServer.Pipes in their order, then
\* FlusherPipe; its cursor has advanced once per stage invoked for that
\* request, whatever the other request did; HTTPServer.Pipes never changes.
C33_FreshPipelinePerRequest ==
    /\ [](\A r \in Reqs : outcome[r] # "idle" => OwnPipeline(r))
    /\ [][pipes' = pipes]_vars
\* two requests are in flight and their cursors differ: one has reached
\* FlusherPipe, the other is still in the admission stage
C33_CursorsApart ==
    /\ outcome[1] = "serving" /\ outcome[2] = "serving"
    /\ ps[1] = <<"admission", "buffer", "handler", "flusher">> /\ ps[2] = ps[1]
    /\ pi[1] = 4 /\ pi[2] = 1

(* ------------------------- panics and the gate ------------------------- *)
\* the call of ServeHTTP for request r is over
Over(r) == outcome[r] \in {"returned", "panicked"}

\* C34: a request whose handler panicked ends with ServeHTTP returning
\* when OnPanicRecover is set and with the panic going on to the caller when
\* it is not; a request without a panic always returns.  Either way its Run
\* has finished afterRun: numConn counts exactly the requests still between
\* the increment and the decrement, and when all requests are over the gate
\* has numConn 0, is not soft-paused and is not closed.
C34_PanicRecoveredByFlagGateRestored ==
    /\ \A r \in Reqs :
          Over(r) =>
             /\ rpc[r] = "done" /\ fault[r] = ~Calm(r)
             /\ IF Calm(r) \/ OnPanicRecover \in panicFlags
                  THEN outcome[r] = "returned" /\ ~panicking[r]
                  ELSE outcome[r] = "panicked" /\ panicking[r]
    /\ numConn = Cardinality({r \in Reqs : outcome[r] = "serving" /\ InFlight(r)})
    /\ (\A r \in Reqs : Over(r)) => (numConn = 0 /\ paused = 0 /\ closed = 0)
\* without OnPanicRecover, the request that engaged the soft pause panicked
\* and the other one returned; the pause was lifted and the count is zero
C34_PanickedRequestLeftGateClean ==
    /\ panicFlags = {}
    /\ outcome[1] = "returned" /\ outcome[2] = "panicked"
    /\ transG = <<"PAUSE", "UNPAUSE">>
    /\ numConn = 0 /\ paused = 0

(* --------------------- compression and the commit ---------------------- *)
\* C35: whenever a gzipWriter routes the bytes written to it through a
\* compressor and the status and headers of the response have been
\* committed to the raw http.ResponseWriter, the committed headers have
\* Content-Encoding: gzip (the gzipWriter set it before the commit),
\* whatever Writes and Flushes came through the gzipWriter.
C35_EncodingSetBeforeCommit ==
    \A r \in Reqs : \A w \in GzipWriters(r) :
        (wrs[r][w].gw # 0 /\ wrs[r][w].in # <<>> /\ raw[r].status # 0)
            => raw[r].hdr.ce = "gzip"

(* ------------------------ the pools and panics ------------------------- *)
\* the number of Get and of Put calls made for request r on the pool of kind
Gets(r, kind) ==
    Cardinality({j \in DOMAIN evG[r] : evG[r][j][1] = "get" /\ evG[r][j][2] = kind})
Puts(r, kind) ==
    Cardinality({j \in DOMAIN evG[r] : evG[r][j][1] = "put" /\ evG[r][j][2] = kind})
\* the ServeHttpPipe of stage k of request r is over, by return or by panic
StageEnded(r, k) ==
    \E o \in DOMAIN evG[r] : evG[r][o][1] \in {"out", "unwound"} /\ evG[r][o][2] = k
PoolOf(stage) == IF stage = "gzip" THEN "gz" ELSE "bf"

\* C36: a GzipPipe or BufferPipe never puts back more writers than it took,
\* and when its ServeHttpPipe is over, by return or by a panic passing
\* through, it has put back every writer it took.
C36_AcquiredReleasedOnce ==
    \A r \in Reqs : \A k \in DOMAIN ps[r] :
        ps[r][k] \in {"gzip", "buffer"} =>
            /\ Puts(r, PoolOf(ps[r][k])) <= Gets(r, PoolOf(ps[r][k]))
            /\ Gets(r, PoolOf(ps[r][k])) <= 1
            /\ StageEnded(r, k) => Puts(r, PoolOf(ps[r][k])) = Gets(r, PoolOf(ps[r][k]))

(* --------------------- the status that is committed -------------------- *)
\* the WriteHeader calls made before the first Write or Flush
BeforeCommit ==
    {i \in 1..Len(opsG) :
        /\ opsG[i][1] = "WriteHeader"
        /\ \A j \in 1..i : opsG[j][1] \notin {"Write", "Flush"}}
\* the code of the last of them, 200 for a code that is not positive or
\* when there is none
StatusAsked ==
    IF BeforeCommit = {} THEN 200
    ELSE LET c == opsG[CHOOSE i \in BeforeCommit : \A j \in BeforeCommit : j <= i][2]
         IN  IF c <= 0 THEN 200 ELSE c

\* C37: ResponseCode always reports the code of the last WriteHeader call
\* made before the first Write or Flush (200 if that code is not positive or
\* no such call was made), before the commit and after it, and that is the
\* status the wrapped sink is given when the first Write or Flush commits.
C37_LastStatusBeforeCommitWins ==
    /\ ResponseCode = StatusAsked
    /\ wCalls # <<>> => wCalls[1] = <<"WriteHeader", StatusAsked>>
\* WriteHeader(404), WriteHeader(503), a Write or Flush, WriteHeader(404):
\* 503 was committed and is still reported
C37_SecondOfTwoCommitted ==
    /\ Len(opsG) = 4
    /\ opsG[1] = <<"WriteHeader", 404>> /\ opsG[2] = <<"WriteHeader", 503>>
    /\ opsG[3][1] \in {"Write", "Flush"} /\ opsG[4] = <<"WriteHeader", 404>>
    /\ wCalls[1] = <<"WriteHeader", 503>> /\ ResponseCode = 503

(***************************************************************************)
(* Part 4: fsnotify.Watcher (src/unnamed/part_004)                         *)
(*                                                                         *)
(* The Watcher keeps two maps under Watcher.mu, reads inotify events in    *)
(* one goroutine (readEvents) and hands them in batches, through the       *)
(* buffered channel Watcher.ev, to another (handleEvents).  The kernel's   *)
(* side of inotify is modelled by what inotify(7) says of it: a watch      *)
(* belongs to an inode, adding a watch for an inode that has one returns   *)
(* that watch's descriptor, removing a watch queues IN_IGNORED, and a      *)
(* closed descriptor fails every call.  The branch for a read of zero      *)
(* bytes (part_004:332-334) is left out: inotify never returns end of file.*)
(***************************************************************************)

\* goroutines that call the Watcher's methods, one call each
MaxThreads == 3
\* events that happen to the watched directories
MaxFsEvents == 1
\* events the kernel queues for one inotify instance
MaxQueue == 2
\* NewWatcher's sysBufSize: events in one read
SysBufSize == 2
\* NewWatcher's bufsize: batches that Watcher.ev buffers
EvBufSize == 1

WThreads == 1 .. MaxThreads

\* the paths: "a" and "a/." name one directory, "a/d" a directory below
\* it, "x" nothing

Inode(p) == CASE p = "a" -> 1 [] p = "a/." -> 1 [] p = "a/d" -> 2 [] OTHER -> 0

\* filepath.Walk(p, walkFn): the files walkFn is called with, in order
\* (every one a directory; a root that does not exist is passed once)
Tree(p) == IF p = "a" THEN <<"a", "a/d">> ELSE <<p>>

\* flags are sets of bits; flags == 0 stands for these
DefaultFlags == {"IN_CREATE", "IN_CLOSE_WRITE", "IN_MOVED_TO", "IN_MOVED_FROM",
                 "IN_DELETE", "IN_DELETE_SELF", "IN_MOVE_SELF"}

\* the calls of Add: the paths, and the flags that go with each
AddInputs == {"a", "a/.", "x"}
AddFlags(p) == IF p = "a/." THEN {"IN_CREATE"} ELSE {}
RemoveInputs == {"a", "a/d"}

Without(f, k) == [x \in DOMAIN f \ {k} |-> f[x]]
Range(f) == {f[x] : x \in DOMAIN f}

\* the kernel's and the maps' state, threaded through the calls
WCur == [done |-> FALSE, err |-> FALSE, fd |-> fd, flags |-> flags, kq |-> kq, kwd |-> kwd,
         merr |-> FALSE, nwd |-> nwd, wd |-> 0, wds |-> wds]

\* inotify_add_watch(2)
InotifyAddWatch(k, fpath) ==
    IF k.fd # "open" \/ Inode(fpath) = 0 THEN [k EXCEPT !.err = TRUE, !.wd = 0]
    ELSE IF Inode(fpath) \in DOMAIN k.kwd
         THEN [k EXCEPT !.err = FALSE, !.wd = k.kwd[Inode(fpath)]]
         ELSE [k EXCEPT !.err = FALSE, !.wd = k.nwd + 1, !.nwd = k.nwd + 1,
                        !.kwd = (Inode(fpath) :> (k.nwd + 1)) @@ k.kwd]

\* inotify_rm_watch(2): the watch goes and IN_IGNORED is queued for it
InotifyRmWatch(k, wd) ==
    IF k.fd # "open" \/ wd \notin Range(k.kwd) THEN [k EXCEPT !.err = TRUE]
    ELSE [k EXCEPT !.err = FALSE,
                   !.kwd = Without(k.kwd, CHOOSE i \in DOMAIN k.kwd : k.kwd[i] = wd),
                   !.kq = IF Len(k.kq) < MaxQueue THEN Append(k.kq, <<wd, "IN_IGNORED">>)
                          ELSE k.kq]

\* w.wds[int32(wd)] = fpath; w.flags[fpath] = flags
added(k, fpath, fl) ==
    IF k.err THEN k
    ELSE [k EXCEPT !.wds = (k.wd :> fpath) @@ k.wds,
                   !.flags = (fpath :> (IF fl = {} THEN DefaultFlags ELSE fl)) @@ k.flags]

\* func (w *Watcher) add(fpath string, flags uint32) error
add(k, fpath, fl) == added(InotifyAddWatch(k, fpath), fpath, fl)

\* delete(w.wds, k); delete(w.flags, v): the error of InotifyRmWatch is
\* returned, the entries go either way
removed(k, wd, fpath) ==
    [InotifyRmWatch(k, wd) EXCEPT !.wds = Without(k.wds, wd),
                                  !.flags = Without(k.flags, fpath)]

\* func (w *Watcher) remove(fpath string) (err error): the first entry of
\* w.wds with that path (no two entries of w.wds hold one path here, so
\* the order of the range does not matter)
remove(k, fpath) ==
    IF \E wd \in DOMAIN k.wds : k.wds[wd] = fpath
    THEN removed(k, CHOOSE wd \in DOMAIN k.wds : k.wds[wd] = fpath, fpath)
    ELSE [k EXCEPT !.err = FALSE]

\* the loop of clear over w.wds, smallest descriptor first
RECURSIVE rmAll(_, _, _)
rmAll(k, todo, failed) ==
    IF todo = {} THEN [k EXCEPT !.err = failed]
    ELSE rmAll(InotifyRmWatch(k, CHOOSE wd \in todo : \A o \in todo : wd <= o),
               todo \ {CHOOSE wd \in todo : \A o \in todo : wd <= o},
               failed \/ InotifyRmWatch(k, CHOOSE wd \in todo : \A o \in todo : wd <= o).err)

\* func (w *Watcher) clear() error
clear(k) == [rmAll(k, DOMAIN k.wds, FALSE) EXCEPT !.wds = <<>>, !.flags = <<>>]

\* fnErr: an error is logged and passed over with ignoreErr, kept otherwise
fnErr(k, in) == k.err /\ ~in.ignoreErr

\* filepath.Walk(fpath, walkFn) over the files of one root
RECURSIVE walk(_, _, _, _)
walk(k, in, files, first) ==
    IF files = <<>> THEN [k EXCEPT !.done = FALSE]
    ELSE IF fnErr(add(k, Head(files), in.flags), in)
         THEN [add(k, Head(files), in.flags) EXCEPT !.done = TRUE, !.merr = TRUE]
         ELSE IF first /\ ~in.recursive
              THEN [add(k, Head(files), in.flags) EXCEPT !.done = TRUE]
              ELSE walk(add(k, Head(files), in.flags), in, Tail(files), FALSE)

\* for _, fpath := range fpaths { ... if err == walkDoneErr { break } }
RECURSIVE walkAll(_, _, _)
walkAll(k, in, fpaths) ==
    IF fpaths = <<>> \/ k.done THEN k
    ELSE walkAll(walk(k, in, Tree(Head(fpaths)), TRUE), in, Tail(fpaths))

\* the body of AddAll under the lock
addAll(k, in) ==
    IF in.clear /\ fnErr(clear(k), in) THEN [clear(k) EXCEPT !.merr = TRUE]
    ELSE IF in.clear THEN walkAll(clear(k), in, in.fpaths)
         ELSE walkAll(k, in, in.fpaths)

WBecomes(k) ==
    /\ wds' = k.wds /\ flags' = k.flags /\ fd' = k.fd
    /\ kwd' = k.kwd /\ nwd' = k.nwd /\ kq' = k.kq

AddAllInputs ==
    {[clear |-> FALSE, flags |-> {}, fpaths |-> <<"x", "a">>, ignoreErr |-> TRUE,
      op |-> "AddAll", recursive |-> TRUE],
     [clear |-> TRUE, flags |-> {}, fpaths |-> <<"a", "x">>, ignoreErr |-> FALSE,
      op |-> "AddAll", recursive |-> FALSE]}

notWatcher == <<listenerv, rwv, pipev, storev>>

\* NewWatcher: the descriptor is open, the maps are empty, the two
\* goroutines are started
InitWatcher ==
    /\ wClosed = 0 /\ wds = <<>> /\ flags = <<>> /\ mu = 0
    /\ ev = [closed |-> FALSE, q |-> <<>>]
    /\ sl \in BOOLEAN
    /\ fd = "open" /\ kwd = <<>> /\ nwd = 0 /\ kq = <<>>
    /\ rdpc = "top" /\ rdbuf = <<>> /\ hdpc = "range" /\ hdx = <<>>
    /\ tpc = [t \in WThreads |-> "idle"]
    /\ tcall = [t \in WThreads |-> [op |-> ""]]
    /\ tret = [t \in WThreads |-> ""]
    /\ fsEventsG = 0 /\ handledG = <<>>

\* a panic in any goroutine ends the process
Running == rdpc # "panicked"

\* the calling goroutines are alike: they make their calls in the order of
\* their numbers
Called(t, c) ==
    /\ \A o \in WThreads : o < t => tpc[o] # "idle"
    /\ tcall' = [tcall EXCEPT ![t] = c]

\* if atomic.LoadUint32(&w.closed) != 0 { return ClosedErr }
CheckClosed(t, c) ==
    /\ Running /\ tpc[t] = "idle"
    /\ Called(t, c)
    /\ IF wClosed # 0
       THEN tpc' = [tpc EXCEPT ![t] = "done"] /\ tret' = [tret EXCEPT ![t] = "ClosedErr"]
       ELSE tpc' = [tpc EXCEPT ![t] = "lock"] /\ UNCHANGED tret
    /\ UNCHANGED <<wClosed, wds, flags, mu, ev, sl, fd, kwd, nwd, kq, rdpc, rdbuf, hdpc, hdx,
                   fsEventsG, handledG>>
    /\ UNCHANGED notWatcher

Add(t, fpath, fl) == CheckClosed(t, [flags |-> fl, fpath |-> fpath, op |-> "Add"])

AddAll(t, in) == CheckClosed(t, in)

Remove(t, fpath) == CheckClosed(t, [fpath |-> fpath, op |-> "Remove"])

Clear(t) == CheckClosed(t, [op |-> "Clear"])

\* w.mu.Lock()
WatcherLock(t) ==
    /\ Running /\ tpc[t] = "lock" /\ mu = 0
    /\ mu' = t
    /\ tpc' = [tpc EXCEPT ![t] = "locked"]
    /\ UNCHANGED <<wClosed, wds, flags, ev, sl, fd, kwd, nwd, kq, rdpc, rdbuf, hdpc, hdx,
                   tcall, tret, fsEventsG, handledG>>
    /\ UNCHANGED notWatcher

\* what the call does under the lock
Body(k, c) ==
    CASE c.op = "Add" -> add(k, c.fpath, c.flags)
      [] c.op = "AddAll" -> addAll(k, c)
      [] c.op = "Remove" -> remove(k, c.fpath)
      [] OTHER -> clear(k)

Failed(k, c) == IF c.op = "AddAll" THEN k.merr ELSE k.err

\* defer w.mu.Unlock(); return w.add(...) / w.remove(...) / w.clear() / merr.NonNilError()
WatcherLocked(t) ==
    /\ Running /\ tpc[t] = "locked" /\ tcall[t].op # "Close"
    /\ WBecomes(Body(WCur, tcall[t]))
    /\ mu' = 0
    /\ tpc' = [tpc EXCEPT ![t] = "done"]
    /\ tret' = [tret EXCEPT ![t] = IF Failed(Body(WCur, tcall[t]), tcall[t]) THEN "err" ELSE "nil"]
    /\ UNCHANGED <<wClosed, ev, sl, rdpc, rdbuf, hdpc, hdx, tcall, fsEventsG, handledG>>
    /\ UNCHANGED notWatcher

\* if !atomic.CompareAndSwapUint32(&w.closed, 0, 1) { return }
WatcherClose(t) ==
    /\ Running /\ tpc[t] = "idle"
    /\ Called(t, [op |-> "Close"])
    /\ IF wClosed = 0
       THEN wClosed' = 1 /\ tpc' = [tpc EXCEPT ![t] = "lock"] /\ UNCHANGED tret
       ELSE tpc' = [tpc EXCEPT ![t] = "done"] /\ tret' = [tret EXCEPT ![t] = "nil"]
            /\ UNCHANGED wClosed
    /\ UNCHANGED <<wds, flags, mu, ev, sl, fd, kwd, nwd, kq, rdpc, rdbuf, hdpc, hdx,
                   fsEventsG, handledG>>
    /\ UNCHANGED notWatcher

\* w.clear()
WatcherCloseClear(t) ==
    /\ Running /\ tpc[t] = "locked" /\ tcall[t].op = "Close"
    /\ WBecomes(clear(WCur))
    /\ tpc' = [tpc EXCEPT ![t] = "cleared"]
    /\ UNCHANGED <<wClosed, mu, ev, sl, rdpc, rdbuf, hdpc, hdx, tcall, tret,
                   fsEventsG, handledG>>
    /\ UNCHANGED notWatcher

\* close(w.ev); return nil, and the deferred w.mu.Unlock()
WatcherCloseChan(t) ==
    /\ Running /\ tpc[t] = "cleared"
    /\ ev' = [ev EXCEPT !.closed = TRUE]
    /\ mu' = 0
    /\ tpc' = [tpc EXCEPT ![t] = "done"]
    /\ tret' = [tret EXCEPT ![t] = "nil"]
    /\ UNCHANGED <<wClosed, wds, flags, sl, fd, kwd, nwd, kq, rdpc, rdbuf, hdpc, hdx, tcall,
                   fsEventsG, handledG>>
    /\ UNCHANGED notWatcher

\* something happens to a watched directory: the kernel queues an event
FsEvent ==
    /\ Running /\ fsEventsG < MaxFsEvents /\ Len(kq) < MaxQueue
    /\ \E wd \in Range(kwd) : kq' = Append(kq, <<wd, "IN_CREATE">>)
    /\ fsEventsG' = fsEventsG + 1
    /\ UNCHANGED <<wClosed, wds, flags, mu, ev, sl, fd, kwd, nwd, rdpc, rdbuf, hdpc, hdx,
                   tpc, tcall, tret, handledG>>
    /\ UNCHANGED notWatcher

ReaderGoes(pc, buf) ==
    /\ rdpc' = pc /\ rdbuf' = buf
    /\ UNCHANGED <<wClosed, wds, flags, mu, sl, kwd, nwd, hdpc, hdx,
                   tpc, tcall, tret, fsEventsG, handledG>>
    /\ UNCHANGED notWatcher

\* return, and the deferred syscall.Close(w.fd): the kernel drops the
\* instance with its watches and its queue
ReaderReturns ==
    /\ ReaderGoes("returned", <<>>)
    /\ fd' = "closed" /\ kq' = <<>>
    /\ UNCHANGED ev

\* if w.sl != 0 { if closed { return }; time.Sleep(w.sl) }
ReadSleep ==
    /\ Running /\ rdpc = "top"
    /\ IF sl /\ wClosed # 0 THEN ReaderReturns
       ELSE ReaderGoes("select", <<>>) /\ UNCHANGED <<ev, fd, kq>>

\* if closed { return }; Select; if the descriptor is not readable { continue }
ReadSelect ==
    /\ Running /\ rdpc = "select"
    /\ IF wClosed # 0 THEN ReaderReturns
       ELSE /\ ReaderGoes(IF kq = <<>> THEN "top" ELSE "read", <<>>)
            /\ UNCHANGED <<ev, fd, kq>>

\* if closed { return }; n, err := syscall.Read(w.fd, buf): EAGAIN with
\* nothing queued, at most sysbufsize events otherwise
Read ==
    /\ Running /\ rdpc = "read"
    /\ IF wClosed # 0 THEN ReaderReturns
       ELSE IF kq = <<>> THEN ReaderGoes("top", <<>>) /\ UNCHANGED <<ev, fd, kq>>
       ELSE /\ ReaderGoes("parse", SubSeq(kq, 1, IF Len(kq) < SysBufSize THEN Len(kq) ELSE SysBufSize))
            /\ kq' = SubSeq(kq, (IF Len(kq) < SysBufSize THEN Len(kq) ELSE SysBufSize) + 1, Len(kq))
            /\ UNCHANGED <<ev, fd>>

\* fpath := w.wds[raw.Wd], read without the lock; IN_IGNORED and events of
\* unknown descriptors are skipped
RECURSIVE parsed(_, _)
parsed(buf, tbl) ==
    IF buf = <<>> THEN <<>>
    ELSE IF Head(buf)[2] = "IN_IGNORED" \/ Head(buf)[1] \notin DOMAIN tbl
         THEN parsed(Tail(buf), tbl)
         ELSE <<tbl[Head(buf)[1]]>> \o parsed(Tail(buf), tbl)

ReadParse ==
    /\ Running /\ rdpc = "parse"
    /\ ReaderGoes("send", parsed(rdbuf, wds))
    /\ UNCHANGED <<ev, fd, kq>>

\* select { case w.ev <- wevs: case <-time.After(10 * time.Millisecond): }
\* a send on a closed channel panics; with the buffer full the batch is
\* dropped
ReadSend ==
    /\ Running /\ rdpc = "send"
    /\ IF ev.closed THEN ReaderGoes("panicked", rdbuf) /\ UNCHANGED ev
       ELSE IF Len(ev.q) < EvBufSize
            THEN ReaderGoes("top", <<>>) /\ ev' = [ev EXCEPT !.q = Append(@, rdbuf)]
            ELSE ReaderGoes("top", <<>>) /\ UNCHANGED ev
    /\ UNCHANGED <<fd, kq>>

HandlerGoes(pc, x) ==
    /\ hdpc' = pc /\ hdx' = x
    /\ UNCHANGED <<wClosed, wds, flags, mu, sl, fd, kwd, nwd, kq, rdpc, rdbuf,
                   tpc, tcall, tret, fsEventsG>>
    /\ UNCHANGED notWatcher

\* for x := range w.ev: the next batch, or the end of the loop once the
\* channel is closed and empty
HandleRange ==
    /\ Running /\ hdpc = "range"
    /\ IF ev.q # <<>>
       THEN HandlerGoes("fn", Head(ev.q)) /\ ev' = [ev EXCEPT !.q = Tail(@)]
       ELSE ev.closed /\ HandlerGoes("returned", <<>>) /\ UNCHANGED ev
    /\ UNCHANGED handledG

\* w.fn(x)
HandleFn ==
    /\ Running /\ hdpc = "fn"
    /\ HandlerGoes("range", <<>>)
    /\ handledG' = IF Len(handledG) < MaxFsEvents THEN Append(handledG, hdx) ELSE handledG
    /\ UNCHANGED ev

NextWatch ==
    \/ \E t \in WThreads : \E p \in AddInputs : Add(t, p, AddFlags(p))
    \/ \E t \in WThreads : \E in \in AddAllInputs : AddAll(t, in)
    \/ \E t \in WThreads : \E p \in RemoveInputs : Remove(t, p)
    \/ \E t \in WThreads : Clear(t)
    \/ \E t \in WThreads : WatcherLock(t)
    \/ \E t \in WThreads : WatcherLocked(t)
    \/ \E t \in WThreads : WatcherClose(t)
    \/ \E t \in WThreads : WatcherCloseClear(t)
    \/ \E t \in WThreads : WatcherCloseChan(t)
    \/ FsEvent
    \/ ReadSleep
    \/ ReadSelect
    \/ Read
    \/ ReadParse
    \/ ReadSend
    \/ HandleRange
    \/ HandleFn

InitWatch ==
    /\ InitListener({}, {2})
    /\ InitResponseWriter /\ wIsFlusher = TRUE
    /\ InitNoRequests
    /\ InitWatcher
    /\ InitNoStore

SpecWatch == InitWatch /\ [][NextWatch]_vars

\* Close has closed the channel and returned
WatcherClosed == ev.closed

\* C38: under every interleaving of Close with the reader loop, the reader
\* never sends a batch on Watcher.ev after Close has closed it: the
\* goroutine of readEvents never panics on a send.  (The claim goes on to
\* say that both loops end after Close; a reader that panics ends the
\* process instead.)
C38_NoSendOnClosedChannel == rdpc # "panicked"

\* C39, first half: once Close has returned, Watcher.wds and Watcher.flags
\* are empty and stay empty
TablesEmptyAfterClose == WatcherClosed => DOMAIN wds = {} /\ DOMAIN flags = {}

\* C39, second half: Watcher.wds and Watcher.flags hold the same paths
TablesAgree == Range(wds) = DOMAIN flags

\* C39: once Close has returned the watch tables are empty and stay empty,
\* whatever Add, AddAll, Remove or Clear overlapped with it, and the table
\* of paths and the table of flags always describe the same set of paths
C39_TablesEmptyAfterCloseAndAgree == TablesEmptyAfterClose /\ TablesAgree

(***************************************************************************)
(* Part 5: web.WebStore (src/web/pipeline.go:302-352)                      *)
(*                                                                         *)
(* The WebStore keeps one safestore per namespace in a map under an        *)
(* RWMutex.  The safestore is made with safestore.New(false), without a    *)
(* lock of its own: as the README says, a namespace is used within one     *)
(* goroutine, and so here each namespace belongs to one goroutine.  The    *)
(* safestore is the map of keys to values that it is, with nil for a key   *)
(* it does not hold; entries put with a time to live of 0 do not expire.   *)
(***************************************************************************)

\* calls that one goroutine makes on the WebStore
MaxStoreCalls == 3

SThreads == {1, 2}
\* the namespaces each goroutine uses
NsOf(g) == IF g = 1 THEN {"n1"} ELSE {"n2"}
Namespaces == {"n1", "n2"}
Keys == {"k1", "k2"}
Vals == {"v1", "v2"}

notStore == <<listenerv, rwv, pipev, watchv>>

\* NewWebStore
InitStore ==
    /\ container = <<>> /\ stores = <<>> /\ lockW = 0 /\ lockR = {}
    /\ spc = [g \in SThreads |-> "idle"]
    /\ scall = [g \in SThreads |-> [op |-> ""]]
    /\ srq = [g \in SThreads |-> 0]
    /\ sret = [g \in SThreads |-> ""]
    /\ scalls = [g \in SThreads |-> 0]
    /\ sopsG = [ns \in Namespaces |-> [cleared |-> {}, puts |-> <<>>]]

StoreCalls(g, c, pc) ==
    /\ spc[g] \in {"idle", "done"} /\ scalls[g] < MaxStoreCalls
    /\ scalls' = [scalls EXCEPT ![g] = @ + 1]
    /\ scall' = [scall EXCEPT ![g] = c]
    /\ spc' = [spc EXCEPT ![g] = pc]
    /\ srq' = [srq EXCEPT ![g] = 0]
    /\ sret' = [sret EXCEPT ![g] = ""]
    /\ UNCHANGED <<container, stores, lockW, lockR, sopsG>>
    /\ UNCHANGED notStore

\* func (rc *WebStore) Get(ns interface{}, key string) interface{}: rc.rq(ns)
Get(g, ns, key) == StoreCalls(g, [key |-> key, ns |-> ns, op |-> "Get"], "rlock")

\* func (rc *WebStore) Put(ns interface{}, key string, val interface{}): rc.rqNonNil(ns)
Put(g, ns, key, val) ==
    StoreCalls(g, [key |-> key, ns |-> ns, op |-> "Put", val |-> val], "lock")

\* func (rc *WebStore) Clear(ns interface{})
ClearNs(g, ns) == StoreCalls(g, [ns |-> ns, op |-> "Clear"], "lock")

\* rc.lock.RLock()
StoreRLock(g) ==
    /\ spc[g] = "rlock" /\ lockW = 0
    /\ lockR' = lockR \cup {g}
    /\ spc' = [spc EXCEPT ![g] = "rq"]
    /\ UNCHANGED <<container, stores, lockW, scall, srq, sret, scalls, sopsG>>
    /\ UNCHANGED notStore

\* rc.lock.Lock()
StoreLock(g) ==
    /\ spc[g] = "lock" /\ lockW = 0 /\ lockR = {}
    /\ lockW' = g
    /\ spc' = [spc EXCEPT ![g] = IF scall[g].op = "Put" THEN "rqNonNil" ELSE "clear"]
    /\ UNCHANGED <<container, stores, lockR, scall, srq, sret, scalls, sopsG>>
    /\ UNCHANGED notStore

\* rc.container[ns], 0 for nil
Lookup(ns) == IF ns \in DOMAIN container THEN container[ns] ELSE 0

\* defer rc.lock.RUnlock(); return rc.container[ns]
rq(g) ==
    /\ spc[g] = "rq"
    /\ srq' = [srq EXCEPT ![g] = Lookup(scall[g].ns)]
    /\ lockR' = lockR \ {g}
    /\ spc' = [spc EXCEPT ![g] = "get"]
    /\ UNCHANGED <<container, stores, lockW, scall, sret, scalls, sopsG>>
    /\ UNCHANGED notStore

\* rq.Get(key), nil for a key the safestore does not hold
StoreGet(s, key) == IF key \in DOMAIN stores[s] THEN stores[s][key] ELSE "nil"

\* if rq := rc.rq(ns); rq != nil { return rq.Get(key) }; return nil
GetReturn(g) ==
    /\ spc[g] = "get"
    /\ sret' = [sret EXCEPT ![g] = IF srq[g] # 0 THEN StoreGet(srq[g], scall[g].key) ELSE "nil"]
    /\ spc' = [spc EXCEPT ![g] = "done"]
    /\ UNCHANGED <<container, stores, lockW, lockR, scall, srq, scalls, sopsG>>
    /\ UNCHANGED notStore

\* rq := rc.container[ns]; if rq == nil { rq = safestore.New(false);
\* rc.container[ns] = rq }; return rq, and the deferred Unlock
rqNonNil(g) ==
    /\ spc[g] = "rqNonNil"
    /\ IF Lookup(scall[g].ns) = 0
       THEN /\ stores' = Append(stores, <<>>)
            /\ container' = (scall[g].ns :> (Len(stores) + 1)) @@ container
            /\ srq' = [srq EXCEPT ![g] = Len(stores) + 1]
       ELSE /\ srq' = [srq EXCEPT ![g] = Lookup(scall[g].ns)]
            /\ UNCHANGED <<container, stores>>
    /\ lockW' = 0
    /\ spc' = [spc EXCEPT ![g] = "put"]
    /\ UNCHANGED <<lockR, scall, sret, scalls, sopsG>>
    /\ UNCHANGED notStore

\* rc.rqNonNil(ns).Put(key, val, 0)
PutStore(g) ==
    /\ spc[g] = "put"
    /\ stores' = [stores EXCEPT ![srq[g]] = (scall[g].key :> scall[g].val) @@ @]
    /\ spc' = [spc EXCEPT ![g] = "done"]
    /\ sopsG' = [sopsG EXCEPT ![scall[g].ns].puts = (scall[g].key :> scall[g].val) @@ @]
    /\ UNCHANGED <<container, lockW, lockR, scall, srq, sret, scalls>>
    /\ UNCHANGED notStore

\* a Clear that drops every namespace
ClearLocked_DropsAll(g) ==
    /\ spc[g] = "clear"
    /\ container' = <<>>
    /\ lockW' = 0
    /\ spc' = [spc EXCEPT ![g] = "done"]
    /\ sopsG' = [sopsG EXCEPT ![scall[g].ns] =
                    [cleared |-> @.cleared \cup DOMAIN @.puts, puts |-> <<>>]]
    /\ UNCHANGED <<stores, lockR, scall, srq, sret, scalls>>
    /\ UNCHANGED notStore

\* delete(rc.container, ns), and the deferred Unlock
ClearLocked(g) ==
    /\ spc[g] = "clear"
    /\ container' = [n \in DOMAIN container \ {scall[g].ns} |-> container[n]]
    /\ lockW' = 0
    /\ spc' = [spc EXCEPT ![g] = "done"]
    /\ sopsG' = [sopsG EXCEPT ![scall[g].ns] =
                    [cleared |-> @.cleared \cup DOMAIN @.puts, puts |-> <<>>]]
    /\ UNCHANGED <<stores, lockR, scall, srq, sret, scalls>>
    /\ UNCHANGED notStore

InitStoreOnly ==
    /\ InitListener({}, {2})
    /\ InitResponseWriter /\ wIsFlusher = TRUE
    /\ InitNoRequests
    /\ InitNoWatcher
    /\ InitStore

NextStore ==
    \/ \E g \in SThreads : \E ns \in NsOf(g) : \E key \in Keys : Get(g, ns, key)
    \/ \E g \in SThreads : \E ns \in NsOf(g) : \E key \in Keys : \E val \in Vals :
          Put(g, ns, key, val)
    \/ \E g \in SThreads : \E ns \in NsOf(g) : ClearNs(g, ns)
    \/ \E g \in SThreads : StoreRLock(g)
    \/ \E g \in SThreads : StoreLock(g)
    \/ \E g \in SThreads : rq(g)
    \/ \E g \in SThreads : GetReturn(g)
    \/ \E g \in SThreads : rqNonNil(g)
    \/ \E g \in SThreads : PutStore(g)
    \/ \E g \in SThreads : ClearLocked(g)

SpecStore == InitStoreOnly /\ [][NextStore]_vars

\* the value of the most recent Put(ns, key, v) since the last Clear(ns),
\* nil if there is none
LastPut(ns, key) ==
    IF key \in DOMAIN sopsG[ns].puts THEN sopsG[ns].puts[key] ELSE "nil"

\* what Get(ns, key) returns when nothing else runs
Visible(ns, key) == IF Lookup(ns) = 0 THEN "nil" ELSE StoreGet(Lookup(ns), key)

\* goroutine g has returned from a Get
GetDone(g) == scall[g].op = "Get" /\ spc[g] = "done"

GetReturnsLastPut ==
    \A g \in SThreads : GetDone(g) => sret[g] = LastPut(scall[g].ns, scall[g].key)

\* a step of a Put or a Clear of goroutine g
Changes(g) == spc[g] \in {"lock", "rqNonNil", "put", "clear"} /\ spc'[g] # spc[g]

OthersUntouched ==
    \A g \in SThreads : Changes(g) =>
        \A ns \in Namespaces \ {scall[g].ns} : \A key \in Keys :
            Visible(ns, key)' = Visible(ns, key)

GetCreatesNothing ==
    \A g \in SThreads :
        spc'[g] # spc[g] /\ scall'[g].op = "Get" => container' = container

\* C40: Get(ns, key) returns the value of the most recent Put(ns, key, v)
\* made since the last Clear(ns), nil if there is none; no step of a Put or
\* a Clear on one namespace changes what Get returns for another namespace;
\* no step of a Get changes the container
C40_GetReturnsLastPutSinceClear ==
    /\ []GetReturnsLastPut
    /\ [][OthersUntouched /\ GetCreatesNothing]_vars

\* C40 witness: a Get has returned nil for a key that was put and then
\* cleared, while another namespace holds a value
C40_NilAfterClearBesideLiveNamespace ==
    \E g \in SThreads :
        /\ GetDone(g) /\ sret[g] = "nil"
        /\ scall[g].key \in sopsG[scall[g].ns].cleared
        /\ \E ns \in Namespaces \ {scall[g].ns} : \E key \in Keys : Visible(ns, key) # "nil"

====
